---- MODULE Spec2Model ----
(***************************************************************************)
(* Account pool, token manager and retry runners of Antigravity-Proxy.     *)
(*                                                                         *)
(* Time is the value of Date.now() in milliseconds.  An upstream error is  *)
(* a record [kind, hint]: kind is the class the classifiers of             *)
(* route-helpers.js give its message, hint is the match of                 *)
(* /reset after (\d+)s/i in the message (<< >> when there is none).        *)
(* Quotas are in tenths (quota_remaining * 10).                            *)
(***************************************************************************)
EXTENDS Integers, Sequences, FiniteSets, TLC

\* ------------------------------------------------------------------ bounds
NumAccounts == 2
NumRequests == 2
MaxTicks == 1
MaxQuota == 4
MaxCapacityErrors == 1
MaxConsecutiveErrors == 5
MaxAccountErrors == 6
NumPool == 4
MaxCalls == 4
MaxSchedulerRuns == 3
MaxSchedulerStarts == 2
MaxChunks == 2
MaxVersionClock == 6
MaxFetches == 3
NumHbAccounts == 2
MaxHeartbeatStarts == 2
MaxParts == 3
MaxClock == 6
MaxAttemptLogs == 2
NumDbAccounts == 2
PriorCooldownMs == 30000

\* ------------------------------------------------------- program constants
MAX_CONCURRENT_PER_ACCOUNT == 1
CAPACITY_COOLDOWN_DEFAULT_MS == 15000
TOKEN_REFRESH_BUFFER == 5
CAPACITY_COOLDOWN_MAX_MS == 120000
MsPerSecond == 1000
GroupQuotaThreshold == 2
maxRetries == 2
baseRetryDelayMs == 1000
errorCountToDisable == 3
DISABLE_LOCAL_LIMITS == FALSE
sameAccountRetries == 2
sameAccountRetryDelayMs == 500
ResetSeconds == 7

Accounts == 1..NumAccounts
Requests == 1..NumRequests
Keys == {"group:claude"}
QuotaValues == GroupQuotaThreshold..MaxQuota
HintSeconds == {0, 1}
Hints == {<< >>} \cup {<<n>> : n \in HintSeconds}
ErrorKinds == {"capacity", "serverCapacity", "other"}
DefaultKey == CHOOSE k \in Keys : TRUE
Errors == [kind : ErrorKinds, hint : Hints]

VARIABLES
    status,               \* accounts.status
    tokenValid,           \* access_token present and not within TOKEN_REFRESH_BUFFER of expiry
    quota,                \* account_model_quotas.quota_remaining, per selection key
    preferred,            \* preferredAccountBySelection (0 = no entry)
    accountLocks,         \* accountLocks (0 = no entry)
    capacityCooldowns,    \* capacityCooldowns (0 = no entry)
    capacityErrorCounts,  \* capacityErrorCounts (0 = no entry)
    refreshReqs,          \* token-endpoint requests in flight, per account
    now,                  \* Date.now()
    pc,                   \* position of each request in its runner
    rkey,                 \* selection key of the request's model
    excluded,             \* excludedAccountIds of the request-scoped getter
    effectiveMaxRetries,  \* effectiveMaxRetries of the runner
    attempt,              \* attempt of the runner
    acct,                 \* account of the current attempt (0 = none)
    currentAccount,       \* currentAccount of the runner (0 = null)
    sleepUntil,           \* time at which the pending sleep(delay) resolves
    scan,                 \* locals of a suspended getNextAccount call
    hintedUntil,          \* history: latest t + (N+1) s of a recorded "reset after Ns"
    errorCounts,          \* errorCounts (0 = no entry)
    errorsSinceSuccess,   \* history: markAccountError calls since the last markAccountSuccess
    recordedSince,        \* history: capacity errors recorded for (a, k) since its last success
    lastOp,               \* history: the last hook that ran, its account and error
    pool,                 \* the account pool a single request runs on
    run,                  \* locals of the runner that serves the request
    abortSignal,          \* abortSignal.aborted of the request
    attemptLogs,          \* request_attempt_logs rows of the request, oldest first
    upstreamCalls,        \* history: the upstream calls of the request, oldest first
    outcome,              \* what the runner handed back (NoOutcome while it runs)
    sync,                 \* one quota sync: the upstream catalog and what fetchQuotaInfo stored
    db,                   \* the database: accounts, account_model_quotas and request_attempt_logs
    tok,                  \* one ensureValidToken call on an account
    helper,               \* one call of binaryFetch or streamBinaryFetch
    conv,                 \* the converter state of one stream and the last request built
    onb,                  \* onboardUser: its position, loop locals and the requests it sent
    hb,                   \* heartbeat: the entries startHeartbeat created and the map heartbeatTimers
    ver,                  \* version fetcher: _lastRefreshTime, _refreshPromise and the fetches started
    think,                \* resolveOpenAIThinkingSettings: the request and the settings returned
    body,                 \* the chunks enqueued into the body stream of streamBinaryFetch
    sched                 \* the Unleash and telemetry schedulers: _intervalId and their timers

vars == <<status, tokenValid, quota, preferred, accountLocks, capacityCooldowns,
          capacityErrorCounts, refreshReqs, now, pc, rkey, excluded,
          effectiveMaxRetries, attempt, acct, currentAccount, sleepUntil, scan,
          hintedUntil, errorCounts, errorsSinceSuccess, recordedSince, lastOp,
          pool, run, abortSignal, attemptLogs, upstreamCalls, outcome, sync, db, tok, helper, conv, onb, hb, ver, think, body, sched>>

dbVars == <<status, tokenValid, quota>>
poolVars == <<preferred, accountLocks, capacityCooldowns, capacityErrorCounts>>
runnerVars == <<pc, rkey, excluded, effectiveMaxRetries, attempt, acct,
                currentAccount, sleepUntil, scan>>
hookVars == <<errorCounts, errorsSinceSuccess, recordedSince, lastOp>>
orchVars == <<pool, run, abortSignal, attemptLogs, upstreamCalls, outcome, sync, db, tok, helper, conv, onb, hb, ver, think, body, sched>>

Max(a, b) == IF a >= b THEN a ELSE b
Min(a, b) == IF a <= b THEN a ELSE b

RECURSIVE Pow2(_)
Pow2(n) == IF n <= 0 THEN 1 ELSE 2 * Pow2(n - 1)

\* ------------------------------------------------------------- db/index.js
\* getActiveAccounts(selectionKey, {minQuotaRemaining: 0}): the ids of the rows
getActiveAccounts(k) == {a \in Accounts : status[a] = "active" /\ quota[a][k] >= 0}

\* ---------------------------------------------------------- accountPool.js
limitsOn == ~DISABLE_LOCAL_LIMITS /\ MAX_CONCURRENT_PER_ACCOUNT > 0

thresholdCandidates(k) == {a \in getActiveAccounts(k) : quota[a][k] > GroupQuotaThreshold}

getAvailableAccountCount(k) == Cardinality(thresholdCandidates(k))

\* the comparator with the order of the quotas reversed
QuotaBefore_Ascending(a, b, k) ==
    \/ quota[a][k] < quota[b][k]
    \/ quota[a][k] = quota[b][k] /\ a < b

\* comparator of sortedByQuota: quota_remaining descending, then id ascending
QuotaBefore(a, b, k) ==
    \/ quota[a][k] > quota[b][k]
    \/ quota[a][k] = quota[b][k] /\ a < b

RECURSIVE sortedByQuota(_, _)
sortedByQuota(S, k) ==
    IF S = {} THEN << >>
    ELSE LET first == CHOOSE a \in S : \A b \in S \ {a} : QuotaBefore(a, b, k)
         IN  <<first>> \o sortedByQuota(S \ {first}, k)

SeqWithout(s, x) == SelectSeq(s, LAMBDA y : y # x)
InSeq(s, x) == \E i \in 1..Len(s) : s[i] = x

\* ordered without the sticky account in front
orderedCandidates_NoSticky(k) == sortedByQuota(thresholdCandidates(k), k)

\* ordered: the sticky account first when it is among the threshold candidates
orderedCandidates(k) ==
    LET sorted == sortedByQuota(thresholdCandidates(k), k)
        preferredId == preferred[k]
    IN  IF preferredId > 0 /\ InSeq(sorted, preferredId)
        THEN <<preferredId>> \o SeqWithout(sorted, preferredId)
        ELSE sorted

\* isAccountInCooldown, as a test on a cooldown map
inCooldown(cds, a, k) == ~DISABLE_LOCAL_LIMITS /\ cds[a][k] # 0 /\ now < cds[a][k]

isAccountInCooldown(a, k) == inCooldown(capacityCooldowns, a, k)

\* the cooldown map after isAccountInCooldown(a, k): an expired entry is deleted
afterCooldownCheck(cds, a, k) ==
    IF ~DISABLE_LOCAL_LIMITS /\ cds[a][k] # 0 /\ now >= cds[a][k]
    THEN [cds EXCEPT ![a][k] = 0]
    ELSE cds

lockFull(a) == limitsOn /\ accountLocks[a] >= MAX_CONCURRENT_PER_ACCOUNT

lockAccount(locks, a) ==
    IF DISABLE_LOCAL_LIMITS \/ MAX_CONCURRENT_PER_ACCOUNT <= 0 THEN locks
    ELSE [locks EXCEPT ![a] = @ + 1]

unlockAccount(locks, a) ==
    IF DISABLE_LOCAL_LIMITS \/ MAX_CONCURRENT_PER_ACCOUNT <= 0 THEN locks
    ELSE IF locks[a] <= 1 THEN [locks EXCEPT ![a] = 0]
    ELSE [locks EXCEPT ![a] = @ - 1]

\* the cooldown length with the exponent one too high
capacityCooldownMs_OffByOne(counts, a, k, e) ==
    IF e.hint # << >> /\ e.hint[1] >= 0
    THEN (e.hint[1] + 1) * MsPerSecond
    ELSE Min(CAPACITY_COOLDOWN_MAX_MS,
             CAPACITY_COOLDOWN_DEFAULT_MS * Pow2(counts[a][k] + 1))

\* markCapacityLimited: the cooldown length it computes (cooldownMs)
capacityCooldownMs(counts, a, k, e) ==
    LET next == counts[a][k] + 1
        backoff == CAPACITY_COOLDOWN_DEFAULT_MS * Pow2(Max(0, next - 1))
        byBackoff == IF CAPACITY_COOLDOWN_DEFAULT_MS > 0
                     THEN Min(CAPACITY_COOLDOWN_MAX_MS, backoff)
                     ELSE CAPACITY_COOLDOWN_DEFAULT_MS
    IN  IF e.hint # << >> /\ e.hint[1] >= 0
        THEN (e.hint[1] + 1) * MsPerSecond
        ELSE byBackoff

\* markCapacityLimited: the two maps after the call
markCapacityLimited(cds, counts, a, k, e) ==
    IF DISABLE_LOCAL_LIMITS
    THEN [cds |-> cds, counts |-> counts]
    ELSE [cds    |-> [cds EXCEPT ![a][k] = now + capacityCooldownMs(counts, a, k, e)],
          counts |-> [counts EXCEPT ![a][k] = @ + 1]]

\* a markCapacityRecovered that keeps the counter
markCapacityRecovered_Keep(counts, a, k) == counts

\* markCapacityRecovered: the counter map after the call
markCapacityRecovered(counts, a, k) ==
    IF DISABLE_LOCAL_LIMITS THEN counts ELSE [counts EXCEPT ![a][k] = 0]

\* a markAccountError that disables one error late
markAccountError_Late(counts, a) ==
    LET next == counts[a] + 1
    IN  IF next > errorCountToDisable
        THEN [disable |-> TRUE, counts |-> [counts EXCEPT ![a] = 0]]
        ELSE [disable |-> FALSE, counts |-> [counts EXCEPT ![a] = next]]

\* markAccountError: whether it disables the account, and errorCounts after it
markAccountError(counts, a) ==
    LET next == counts[a] + 1
    IN  IF next >= errorCountToDisable
        THEN [disable |-> TRUE, counts |-> [counts EXCEPT ![a] = 0]]
        ELSE [disable |-> FALSE, counts |-> [counts EXCEPT ![a] = next]]

\* markAccountSuccess: errorCounts after the call
markAccountSuccess(counts, a) == [counts EXCEPT ![a] = 0]

\* -------------------------------------------------------- route-helpers.js
isCapacityError(e) == e.kind \in {"capacity", "serverCapacity"}

isServerCapacityExhaustedError(e) == e.kind = "serverCapacity"

parseResetAfterMs(e) ==
    IF e.hint # << >> /\ e.hint[1] >= 0 THEN <<(e.hint[1] + 1) * MsPerSecond>> ELSE << >>

\* ------------------------------------------------------- retry-handler.js
\* withCapacityRetry calls onCapacityError for the errors isCapacityError accepts
withCapacityRetryCalls(e) == isCapacityError(e)

\* the capacity flag withFullRetry hands to onError and to the retry predicates
withFullRetryCapacity(e) == isCapacityError(e)

\* ------------------------------------- error hooks of the runners (unleash.js)
\* each gives the cooldown map, the counter map and the lock map after the
\* hook ran for error e of a call on account a for key k

\* onCapacityError of runChatWithCapacityRetry
chatCapacityOnCapacityError(cds, counts, locks, a, k, e) ==
    LET serverCapacityExhausted == isServerCapacityExhaustedError(e)
        marked == IF ~serverCapacityExhausted
                  THEN markCapacityLimited(cds, counts, a, k, e)
                  ELSE [cds |-> cds, counts |-> counts]
    IN  [cds |-> marked.cds, counts |-> marked.counts, locks |-> unlockAccount(locks, a)]

\* an onError that records every capacity error
chatFullOnError_NoServerCheck(cds, counts, locks, a, k, e, capacity) ==
    LET marked == IF capacity
                  THEN markCapacityLimited(cds, counts, a, k, e)
                  ELSE [cds |-> cds, counts |-> counts]
    IN  [cds |-> marked.cds, counts |-> marked.counts, locks |-> unlockAccount(locks, a)]

\* onError of runChatWithFullRetry
chatFullOnError(cds, counts, locks, a, k, e, capacity) ==
    LET serverCapacityExhausted == isServerCapacityExhaustedError(e)
        marked == IF capacity /\ ~serverCapacityExhausted
                  THEN markCapacityLimited(cds, counts, a, k, e)
                  ELSE [cds |-> cds, counts |-> counts]
    IN  [cds |-> marked.cds, counts |-> marked.counts, locks |-> unlockAccount(locks, a)]

\* the catch block of runStreamChatWithCapacityRetry, as far as it acts on the pool
streamCapacityOnError(cds, counts, locks, a, k, e, aborted) ==
    LET capacity == isCapacityError(e)
        serverCapacityExhausted == isServerCapacityExhaustedError(e)
        marked == IF ~serverCapacityExhausted
                  THEN markCapacityLimited(cds, counts, a, k, e)
                  ELSE [cds |-> cds, counts |-> counts]
    IN  IF aborted \/ ~capacity
        THEN [cds |-> cds, counts |-> counts, locks |-> locks]
        ELSE [cds |-> marked.cds, counts |-> marked.counts, locks |-> unlockAccount(locks, a)]

\* onError of runStreamChatWithFullRetry
streamFullOnError(cds, counts, locks, a, k, e, capacity, aborted) ==
    LET serverCapacityExhausted == isServerCapacityExhaustedError(e)
        marked == IF capacity /\ ~serverCapacityExhausted
                  THEN markCapacityLimited(cds, counts, a, k, e)
                  ELSE [cds |-> cds, counts |-> counts]
    IN  IF aborted
        THEN [cds |-> cds, counts |-> counts, locks |-> locks]
        ELSE [cds |-> marked.cds, counts |-> marked.counts, locks |-> unlockAccount(locks, a)]

\* a retry condition that lets one more attempt through
retryAllowed_OneMore(allowByOutput, n, eff) ==
    allowByOutput /\ n <= Max(0, eff) + 2

\* runStreamChatWithCapacityRetry: the condition under which attempt n, failed
\* with a capacity error, is followed by another attempt
retryAllowed(allowByOutput, n, eff) ==
    allowByOutput /\ n <= Max(0, eff) + 1

\* a runner that keeps the account after every capacity error
reuseAccount_Always(e, a) == a

\* runStreamChatWithCapacityRetry: currentAccount for the attempt after the
\* capacity error e of a call on a (0 = null: the next attempt asks getAccount)
reuseAccount(e, a) == IF isServerCapacityExhaustedError(e) THEN a ELSE 0

\* ------------------------------------------- getNextAccount (accountPool.js)
NoOp == [kind |-> "none", a |-> 0, hint |-> << >>]

\* the accounts of the pool a single request runs on
Pool == 1..NumPool

\* a pool without accounts
NoPool == [status |-> [a \in Pool |-> "absent"],
           accountLocks |-> [a \in Pool |-> 0],
           capacityCooldowns |-> [a \in Pool |-> [k \in Keys |-> 0]],
           capacityErrorCounts |-> [a \in Pool |-> [k \in Keys |-> 0]]]

\* no upstream error
NoError == [kind |-> "none", hint |-> << >>, status |-> 0]

\* the locals of a runner that has not been entered
NoRun == [runner |-> "none", pc |-> "idle", attempt |-> 0, account |-> 0,
          currentAccount |-> 0, excludedAccountIds |-> {}, availableCount |-> 0,
          effectiveMaxRetries |-> 0, delay |-> 0, sameRetry |-> 0,
          accountAttempt |-> 0, maxAccountSwitches |-> 0, error |-> NoError,
          authHandled |-> FALSE, forceRefreshes |-> 0, refreshFailed |-> FALSE]

\* the runner has neither returned nor thrown
NoOutcome == [kind |-> "none", account |-> 0, error |-> NoError, retryAfterMs |-> << >>]

\* the model ids the upstream catalog may hold, in the order of the response:
\* two relevant text models, the relevant image model and a model that is not
\* relevant (the proxy sends claude-opus-4-6-thinking in its place)
CatalogModels ==
    <<"gemini-2.5-pro", "gemini-3-pro-image", "claude-opus-4-6", "claude-sonnet-4-6">>

\* a remainingFraction of 1, fractions counted in hundredths
QuotaUnit == 100

\* no quota sync has run: the catalog of the next response, the aggregate
\* quota and the per-model rows the account has (<< >> = no row)
NoSync ==
    [phase |-> "none", order |-> << >>,
     models |-> [i \in 1..Len(CatalogModels) |-> [kind |-> "absent", remainingFraction |-> << >>]],
     quota_remaining |-> QuotaUnit, quota_reset_time |-> 0,
     rows |-> [i \in 1..Len(CatalogModels) |-> << >>],
     returned |-> << >>]

\* the ids AUTOINCREMENT may hand out
DbAccounts == 1..NumDbAccounts

\* the selection keys that are group keys, and the models quota rows are
\* kept for: a group key and a raw model
GroupKeys == {"group:claude"}

DbModels == GroupKeys \cup {"gemini-2.5-pro"}

\* the database after initDatabase: no account, no row; seq is the
\* AUTOINCREMENT counter of accounts, attempt_logs the account_id of each row
\* of request_attempt_logs (0 = NULL), model_quotas the quota_remaining of
\* each row of account_model_quotas (<< >> = no row); in_flight, deleted and
\* rejected are history: calls in flight per account, the ids deleteAccount
\* removed, the inserts the foreign key refused, as <<table, id>>
NoDb ==
    [seq |-> 0,
     status |-> [a \in DbAccounts |-> "absent"],
     quota_remaining |-> [a \in DbAccounts |-> 0],
     model_quotas |-> [a \in DbAccounts |-> [m \in DbModels |-> << >>]],
     attempt_logs |-> << >>,
     in_flight |-> [a \in DbAccounts |-> 0],
     deleted |-> {},
     rejected |-> {}]

\* no ensureValidToken call: clock is Date.now(), now the value the call
\* captured, returnedAt the time it returned; refreshed and expires_in are
\* history of the refresh it awaited
NoTok ==
    [pc |-> "none", clock |-> 0, access_token |-> FALSE, token_expires_at |-> 0,
     now |-> 0, returnedAt |-> 0, refreshed |-> FALSE, expires_in |-> 0]

\* the lifetimes the token endpoint may grant, in minutes
ExpiresIn == {TOKEN_REFRESH_BUFFER - 2, 60}

\* no helper process: proc is the child process, attached whether the stdout,
\* close and error handlers were attached, timer the armed timeoutId, listening
\* the abort listener, settled the promise ("pending", "resolved" or the code
\* it was rejected with), stream the ReadableStream of streamBinaryFetch; exit
\* is history: what ended the process
NoHelper ==
    [kind |-> "none", proc |-> "none", attached |-> FALSE, timer |-> FALSE,
     listening |-> FALSE, headersParsed |-> FALSE, stderrData |-> "",
     settled |-> "pending", message |-> "", stream |-> "none", exit |-> "none"]

\* the tool call ids of the model: two of Claude's style and one that is not
ToolCallIds == {"toolu_1", "toolu_2", "call_1"}

\* no request converted yet
NoUpstream ==
    [built |-> FALSE,
     req |-> [model |-> "", enableThinking |-> FALSE, tool_calls |-> << >>,
              content |-> << >>],
     assistant |-> << >>, tool |-> << >>, includeThoughts |-> "absent",
     downgradeLogged |-> FALSE]

\* the module state of openai-converter.js and of the signature cache for one
\* stream (one requestId): thinkingState and openAIStreamToolCallSeen of the
\* stream, its claudeToolThinkingBuffer entry (buffered = the map holds it),
\* the two caches (tool_call_id -> signature, "" = none). model,
\* includeThinking and output (OPENAI_THINKING_OUTPUT) are fixed for the
\* stream; received, chunks and upstream are history: the parts read from the
\* upstream, the chunks handed to the client, the last request built
NoConv ==
    [model |-> "", includeThinking |-> FALSE, output |-> "reasoning_content",
     thinkingState |-> FALSE, toolCallSeen |-> FALSE, buffered |-> FALSE,
     claudeBuf |-> [signature |-> "", pendingToolCallIds |-> << >>],
     claudeToolThinking |-> [id \in ToolCallIds |-> ""],
     toolThoughtSignature |-> [id \in ToolCallIds |-> ""],
     received |-> << >>, chunks |-> << >>, finished |-> FALSE,
     upstream |-> NoUpstream]

\* onboardUser: the tiers in the order they are tried, the polls of a tier and
\* the delay between two polls
tiers == <<"standard-tier", "free-tier">>
maxAttempts == 8
pollDelayMs == 2000

\* onboardUser has not been called: pc is the position in the function, tier
\* the index into tiers, attempt and noProjectIdRetries the loop locals; polls
\* counts the requests sent, tierPolls those of the tier, slept the time spent
\* in sleep() and order lists the tier of every request
NoOnboard ==
    [pc |-> "idle", tier |-> 0, attempt |-> 0, noProjectIdRetries |-> 0,
     polls |-> 0, tierPolls |-> 0, slept |-> 0, order |-> << >>, tierId |-> "none"]

\* the accounts with a heartbeat and the access tokens an account object holds
HbAccounts == 1..NumHbAccounts
HbTokens == 1..2

\* no heartbeat was started: entries[a] lists the entry objects startHeartbeat
\* created for account a, each with the state of its timer chain ("timer": a
\* setTimeout is pending, "ticking": tick awaits its request, "cleared": the
\* pending timer was cleared) and the account object it sends with;
\* heartbeatTimers[a] is the index of the entry in the map, 0 for none
NoHeartbeat ==
    [entries |-> [a \in HbAccounts |-> << >>],
     heartbeatTimers |-> [a \in HbAccounts |-> 0]]

\* the debounce window of refreshVersion
DEBOUNCE_MS == 30000

\* the version fetcher before any refreshVersion: _lastRefreshTime,
\* _refreshPromise (the index of the fetch it wraps, 0 for null), the clock in
\* milliseconds, the fetches refreshVersion started and the last call
NoVersion ==
    [lastRefreshTime |-> 0, refreshPromise |-> 0, clock |-> 0, fetches |-> << >>,
     lastCall |-> [at |-> 0, fetch |-> 0]]

\* resolveOpenAIThinkingSettings has not been called
NoThinking ==
    [called |-> FALSE, req |-> << >>, enableThinking |-> FALSE, rawBudget |-> 0]

\* the body of a streamed response before any chunk: enqueued counts the
\* chunks controller.enqueue put into the stream, late the calls of
\* controller.enqueue made on a stream that was closed or cancelled (each of
\* them throws a TypeError in the stdout handler)
NoBody == [enqueued |-> 0, late |-> 0]

\* the two camouflage schedulers with a start and a stop function
Schedulers == {"unleash", "telemetry"}

\* a scheduler that was never started: intervalId is _intervalId (0 = null,
\* else the number of the interval), initial the pending first-run timeouts,
\* intervals the live setInterval timers, jitter the pending setTimeout(run,
\* jitter), started and begun count the start calls that went past the guard
\* and the runs begun; stopped and lateRun are history: stop was called since
\* the last start, and a run began while stopped
NoScheduler ==
    [intervalId |-> 0, initial |-> 0, intervals |-> {}, jitter |-> 0,
     started |-> 0, begun |-> 0, stopped |-> FALSE, lateRun |-> FALSE]

NoScan == [ordered |-> << >>, idx |-> 0, preferredId |-> 0, snapValid |-> {}]

\* the for-loop over ordered, run from s.idx until a candidate passes the
\* exclude, concurrency and cooldown checks or the list ends
RECURSIVE scanLoop(_, _, _, _)
scanLoop(k, ex, s, cds) ==
    IF s.idx > Len(s.ordered)
    THEN [found |-> FALSE, s |-> s, cds |-> cds]
    ELSE LET a == s.ordered[s.idx]
             nxt == [s EXCEPT !.idx = @ + 1]
         IN  IF a \in ex \/ lockFull(a) \/ inCooldown(cds, a, k)
             THEN scanLoop(k, ex, nxt, cds)
             ELSE [found |-> TRUE, s |-> s, cds |-> afterCooldownCheck(cds, a, k)]

\* the locals of request r once its runner has returned or thrown
requestOver(r) ==
    /\ pc' = [pc EXCEPT ![r] = "idle"]
    /\ rkey' = [rkey EXCEPT ![r] = DefaultKey]
    /\ excluded' = [excluded EXCEPT ![r] = {}]
    /\ effectiveMaxRetries' = [effectiveMaxRetries EXCEPT ![r] = 0]
    /\ attempt' = [attempt EXCEPT ![r] = 0]
    /\ acct' = [acct EXCEPT ![r] = 0]
    /\ currentAccount' = [currentAccount EXCEPT ![r] = 0]
    /\ sleepUntil' = [sleepUntil EXCEPT ![r] = 0]
    /\ scan' = [scan EXCEPT ![r] = NoScan]

\* the locals of request r while its runner goes on: position p, account a of
\* the attempt, attempt number n, exclude set ex
requestAt(r, p, k, eff, n, a, ex, s) ==
    /\ pc' = [pc EXCEPT ![r] = p]
    /\ rkey' = [rkey EXCEPT ![r] = k]
    /\ excluded' = [excluded EXCEPT ![r] = ex]
    /\ effectiveMaxRetries' = [effectiveMaxRetries EXCEPT ![r] = eff]
    /\ attempt' = [attempt EXCEPT ![r] = n]
    /\ acct' = [acct EXCEPT ![r] = a]
    /\ currentAccount' = [currentAccount EXCEPT ![r] = 0]
    /\ sleepUntil' = [sleepUntil EXCEPT ![r] = 0]
    /\ scan' = [scan EXCEPT ![r] = s]

\* getNextAccount from the candidate loop on, for request r (attempt n of a
\* runner with selection key k and effectiveMaxRetries eff), exclude set ex,
\* loop locals s0, sticky map pref0 and token requests reqs0: the loop runs to
\* the first surviving candidate; ensureValidToken returns at once when the
\* snapshot row holds a valid token and otherwise awaits refreshAccessToken.
\* A throw leaves the runner (getAccount is called outside its try block).
candidateLoop(r, k, eff, n, ex, s0, pref0, reqs0) ==
    LET res == scanLoop(k, ex, s0, capacityCooldowns)
        a == res.s.ordered[res.s.idx]
    IN  /\ capacityCooldowns' = res.cds
        /\ IF res.found /\ a \in res.s.snapValid
           THEN /\ accountLocks' = lockAccount(accountLocks, a)
                /\ preferred' = [pref0 EXCEPT ![k] = a]
                /\ refreshReqs' = reqs0
                /\ requestAt(r, "calling", k, eff, n, a, ex \cup {a}, NoScan)
           ELSE IF res.found
           THEN /\ refreshReqs' = [reqs0 EXCEPT ![a] = @ + 1]
                /\ preferred' = pref0
                /\ UNCHANGED accountLocks
                /\ requestAt(r, "awaitToken", k, eff, n, 0, ex, res.s)
           ELSE /\ preferred' = pref0
                /\ refreshReqs' = reqs0
                /\ UNCHANGED accountLocks
                /\ requestOver(r)

\* getNextAccount(model, {excludeAccountIds: ex}) up to its first suspension
getNextAccount(r, k, eff, n, ex) ==
    IF thresholdCandidates(k) = {}
    THEN /\ preferred' = [preferred EXCEPT ![k] = 0]
         /\ UNCHANGED <<accountLocks, capacityCooldowns, refreshReqs>>
         /\ requestOver(r)
    ELSE candidateLoop(r, k, eff, n, ex,
                       [NoScan EXCEPT !.ordered = orderedCandidates(k),
                                      !.idx = 1,
                                      !.preferredId = preferred[k],
                                      !.snapValid = {a \in Accounts : tokenValid[a]}],
                       preferred, refreshReqs)

\* the route handler releases the account of a runner that returned, or that
\* threw an error other than a capacity error (the runner released that one)
routeRelease(locks, a) == unlockAccount(locks, a)

\* ------------------------------ runStreamChatWithCapacityRetry (unleash.js)
\* the runner is entered: availableCount, effectiveMaxRetries, first attempt
Start(r, k) ==
    /\ pc[r] = "idle"
    /\ getNextAccount(r, k,
                      Min(Max(0, Max(0, getAvailableAccountCount(k)) - 2), Max(0, maxRetries)),
                      1, {})
    /\ UNCHANGED <<dbVars, capacityErrorCounts, now, hintedUntil>>
    /\ UNCHANGED <<hookVars, orchVars>>

\* ensureValidToken resumes: the token endpoint answered with a new token
EnsureTokenRefreshed(r) ==
    /\ pc[r] = "awaitToken"
    /\ LET a == scan[r].ordered[scan[r].idx]
       IN  /\ tokenValid' = [tokenValid EXCEPT ![a] = TRUE]
           /\ refreshReqs' = [refreshReqs EXCEPT ![a] = @ - 1]
           /\ accountLocks' = lockAccount(accountLocks, a)
           /\ preferred' = [preferred EXCEPT ![rkey[r]] = a]
           /\ requestAt(r, "calling", rkey[r], effectiveMaxRetries[r], attempt[r], a,
                        excluded[r] \cup {a}, NoScan)
    /\ UNCHANGED <<status, quota, capacityCooldowns, capacityErrorCounts, now, hintedUntil>>
    /\ UNCHANGED <<hookVars, orchVars>>

\* ensureValidToken throws: refreshAccessToken marked the account error; the
\* loop of getNextAccount goes on with the next candidate
EnsureTokenFailed(r) ==
    /\ pc[r] = "awaitToken"
    /\ LET a == scan[r].ordered[scan[r].idx]
           k == rkey[r]
       IN  /\ status' = [status EXCEPT ![a] = "error"]
           /\ candidateLoop(r, k, effectiveMaxRetries[r], attempt[r], excluded[r],
                            [scan[r] EXCEPT !.idx = @ + 1],
                            IF scan[r].preferredId = a
                            THEN [preferred EXCEPT ![k] = 0]
                            ELSE preferred,
                            [refreshReqs EXCEPT ![a] = @ - 1])
    /\ UNCHANGED <<tokenValid, quota, capacityErrorCounts, now, hintedUntil>>
    /\ UNCHANGED <<hookVars, orchVars>>

\* streamChat resolved: the attempt succeeded, the runner returns and the
\* route handler releases the account
StreamSuccess(r) ==
    /\ pc[r] = "calling"
    /\ capacityErrorCounts' = markCapacityRecovered(capacityErrorCounts, acct[r], rkey[r])
    /\ accountLocks' = routeRelease(accountLocks, acct[r])
    /\ requestOver(r)
    /\ UNCHANGED <<dbVars, preferred, capacityCooldowns, refreshReqs, now, hintedUntil>>
    /\ UNCHANGED <<hookVars, orchVars>>

\* streamChat rejected with error e; aborted is abortSignal.aborted and
\* allowByOutput the answer of canRetry.  An aborted runner returns and one
\* that throws is caught by the route handler, which releases the account
\* unless the error is a capacity error (the runner released that one).
StreamError(r, e, allowByOutput, aborted) ==
    /\ pc[r] = "calling"
    /\ (~aborted /\ isCapacityError(e) /\ ~isServerCapacityExhaustedError(e))
          => capacityErrorCounts[acct[r]][rkey[r]] < MaxCapacityErrors
    /\ LET a == acct[r]
           k == rkey[r]
           capacity == isCapacityError(e)
           serverCapacityExhausted == isServerCapacityExhaustedError(e)
           after == streamCapacityOnError(capacityCooldowns, capacityErrorCounts,
                                          accountLocks, a, k, e, aborted)
           resetMs == parseResetAfterMs(e)
           delay == IF resetMs # << >> THEN resetMs[1]
                    ELSE Max(0, baseRetryDelayMs) * attempt[r]
       IN  /\ capacityCooldowns' = after.cds
           /\ capacityErrorCounts' = after.counts
           /\ hintedUntil' =
                 IF ~aborted /\ e.kind = "capacity" /\ ~DISABLE_LOCAL_LIMITS /\ e.hint # << >>
                 THEN [hintedUntil EXCEPT ![a][k] = Max(@, now + (e.hint[1] + 1) * MsPerSecond)]
                 ELSE hintedUntil
           /\ IF ~aborted /\ capacity
              THEN /\ accountLocks' = after.locks
                   /\ IF retryAllowed(allowByOutput, attempt[r], effectiveMaxRetries[r])
                      THEN /\ currentAccount' = [currentAccount EXCEPT ![r] = reuseAccount(e, a)]
                           /\ sleepUntil' = [sleepUntil EXCEPT ![r] = now + delay]
                           /\ pc' = [pc EXCEPT ![r] = "sleeping"]
                           /\ acct' = [acct EXCEPT ![r] = 0]
                           /\ UNCHANGED <<rkey, excluded, effectiveMaxRetries, attempt, scan>>
                      ELSE requestOver(r)
              ELSE /\ accountLocks' = routeRelease(after.locks, a)
                   /\ requestOver(r)
    /\ UNCHANGED <<dbVars, preferred, refreshReqs, now>>
    /\ UNCHANGED <<hookVars, orchVars>>

\* sleep(delay) resolved: the next iteration of the while loop; it reuses
\* currentAccount, which stays set during the call, or asks getAccount
Wake(r) ==
    /\ pc[r] = "sleeping"
    /\ now >= sleepUntil[r]
    /\ IF currentAccount[r] # 0
       THEN /\ pc' = [pc EXCEPT ![r] = "calling"]
            /\ attempt' = [attempt EXCEPT ![r] = @ + 1]
            /\ acct' = [acct EXCEPT ![r] = currentAccount[r]]
            /\ sleepUntil' = [sleepUntil EXCEPT ![r] = 0]
            /\ UNCHANGED <<rkey, excluded, effectiveMaxRetries, currentAccount, scan>>
            /\ UNCHANGED <<preferred, accountLocks, capacityCooldowns, refreshReqs>>
       ELSE getNextAccount(r, rkey[r], effectiveMaxRetries[r], attempt[r] + 1, excluded[r])
    /\ UNCHANGED <<dbVars, capacityErrorCounts, now, hintedUntil>>
    /\ UNCHANGED <<hookVars, orchVars>>

\* ------------------------------------------------------------- environment
\* the clock advances by one second; the access tokens of the accounts in E
\* come within TOKEN_REFRESH_BUFFER of their expiry
Tick(E) ==
    /\ now + MsPerSecond <= MaxTicks * MsPerSecond
    /\ now' = now + MsPerSecond
    /\ tokenValid' = [a \in Accounts |-> tokenValid[a] /\ a \notin E]
    /\ hintedUntil' = [a \in Accounts |-> [k \in Keys |->
                          IF hintedUntil[a][k] <= now' THEN 0 ELSE hintedUntil[a][k]]]
    /\ UNCHANGED <<status, quota, poolVars, refreshReqs, runnerVars>>
    /\ UNCHANGED <<hookVars, orchVars>>

\* a quota sync stores the remaining quota of (a, k), lowered by the use since
\* the last sync (the upstream reset of a quota lies beyond MaxTicks)
QuotaSync(a, k, q) ==
    /\ q < quota[a][k]
    /\ quota' = [quota EXCEPT ![a][k] = q]
    /\ UNCHANGED <<status, tokenValid, poolVars, refreshReqs, now, runnerVars, hintedUntil>>
    /\ UNCHANGED <<hookVars, orchVars>>

PoolInit ==
    /\ status = [a \in Accounts |-> "active"]
    /\ tokenValid = [a \in Accounts |-> TRUE]
    /\ quota = [a \in Accounts |-> [k \in Keys |-> MaxQuota]]
    /\ preferred = [k \in Keys |-> 0]
    /\ accountLocks = [a \in Accounts |-> 0]
    /\ capacityCooldowns = [a \in Accounts |-> [k \in Keys |-> 0]]
    /\ capacityErrorCounts = [a \in Accounts |-> [k \in Keys |-> 0]]
    /\ refreshReqs = [a \in Accounts |-> 0]
    /\ now = 0
    /\ pc = [r \in Requests |-> "idle"]
    /\ rkey = [r \in Requests |-> DefaultKey]
    /\ excluded = [r \in Requests |-> {}]
    /\ effectiveMaxRetries = [r \in Requests |-> 0]
    /\ attempt = [r \in Requests |-> 0]
    /\ acct = [r \in Requests |-> 0]
    /\ currentAccount = [r \in Requests |-> 0]
    /\ sleepUntil = [r \in Requests |-> 0]
    /\ scan = [r \in Requests |-> NoScan]
    /\ hintedUntil = [a \in Accounts |-> [k \in Keys |-> 0]]
    /\ errorCounts = [a \in Accounts |-> 0]
    /\ errorsSinceSuccess = [a \in Accounts |-> 0]
    /\ recordedSince = [a \in Accounts |-> [k \in Keys |-> 0]]
    /\ lastOp = NoOp

\* no request is served by the single-request runners
Init ==
    /\ PoolInit
    /\ pool = NoPool
    /\ run = NoRun
    /\ abortSignal = FALSE
    /\ attemptLogs = << >>
    /\ upstreamCalls = << >>
    /\ outcome = NoOutcome
    /\ sched = [k \in Schedulers |-> NoScheduler]
    /\ body = NoBody
    /\ think = NoThinking
    /\ ver = NoVersion
    /\ hb = NoHeartbeat
    /\ onb = NoOnboard
    /\ conv = NoConv
    /\ helper = NoHelper
    /\ tok = NoTok
    /\ db = NoDb
    /\ sync = NoSync

Next ==
    \/ \E r \in Requests, k \in Keys : Start(r, k)
    \/ \E r \in Requests : EnsureTokenRefreshed(r)
    \/ \E r \in Requests : EnsureTokenFailed(r)
    \/ \E r \in Requests : StreamSuccess(r)
    \/ \E r \in Requests, e \in Errors, allowByOutput \in BOOLEAN, aborted \in BOOLEAN :
          StreamError(r, e, allowByOutput, aborted)
    \/ \E r \in Requests : Wake(r)
    \/ \E E \in SUBSET Accounts : Tick(E)
    \/ \E a \in Accounts, k \in Keys, q \in QuotaValues : QuotaSync(a, k, q)

Spec == Init /\ [][Next]_vars


\* ----------------------------------------------------- the hooks, call by call
\* The runners call their hooks once for every upstream call that ended; the
\* calls of concurrent requests end in any order.  HookSpec runs the hooks of
\* the four runners on the pool, ErrorSpec the error counting of the pool.

\* what every hook leaves alone
hookFrame == <<tokenValid, quota, preferred, refreshReqs, now, runnerVars, hintedUntil,
              orchVars>>

\* the history after the hook of an error e on (a, k) that was not aborted
errorRecorded(a, k, e) ==
    /\ recordedSince' = IF e.kind = "capacity"
                        THEN [recordedSince EXCEPT ![a][k] = @ + 1]
                        ELSE recordedSince
    /\ lastOp' = [kind |-> e.kind, a |-> a, hint |-> e.hint]

\* the history after the hook of a success on (a, k)
successRecorded(a, k) ==
    /\ recordedSince' = [recordedSince EXCEPT ![a][k] = 0]
    /\ lastOp' = [kind |-> "success", a |-> a, hint |-> << >>]

\* the bound on the capacity errors recorded in a row
withinErrorBound(a, k, e) ==
    e.kind = "capacity" => recordedSince[a][k] < MaxConsecutiveErrors

\* runChatWithCapacityRetry: withCapacityRetry calls onCapacityError for a
\* capacity error e of the call on a
ChatCapacityError(a, k, e) ==
    /\ withCapacityRetryCalls(e)
    /\ withinErrorBound(a, k, e)
    /\ LET after == chatCapacityOnCapacityError(capacityCooldowns, capacityErrorCounts,
                                                accountLocks, a, k, e)
       IN  /\ capacityCooldowns' = after.cds
           /\ capacityErrorCounts' = after.counts
           /\ accountLocks' = after.locks
    /\ errorRecorded(a, k, e)
    /\ UNCHANGED <<status, errorCounts, errorsSinceSuccess>>
    /\ UNCHANGED hookFrame

\* runChatWithCapacityRetry: withCapacityRetry returned out.account = a
ChatCapacityReturn(a, k) ==
    /\ capacityErrorCounts' = markCapacityRecovered(capacityErrorCounts, a, k)
    /\ successRecorded(a, k)
    /\ UNCHANGED <<status, accountLocks, capacityCooldowns, errorCounts, errorsSinceSuccess>>
    /\ UNCHANGED hookFrame

\* runChatWithFullRetry: withFullRetry calls onError for error e of the call
\* on a, with capacity the class it gave the error
ChatFullError(a, k, e) ==
    /\ withinErrorBound(a, k, e)
    /\ LET after == chatFullOnError(capacityCooldowns, capacityErrorCounts,
                                    accountLocks, a, k, e, withFullRetryCapacity(e))
       IN  /\ capacityCooldowns' = after.cds
           /\ capacityErrorCounts' = after.counts
           /\ accountLocks' = after.locks
    /\ errorRecorded(a, k, e)
    /\ UNCHANGED <<status, errorCounts, errorsSinceSuccess>>
    /\ UNCHANGED hookFrame

\* runChatWithFullRetry: withFullRetry calls onSuccess for the call on a
ChatFullSuccess(a, k) ==
    /\ capacityErrorCounts' = markCapacityRecovered(capacityErrorCounts, a, k)
    /\ errorCounts' = markAccountSuccess(errorCounts, a)
    /\ errorsSinceSuccess' = [errorsSinceSuccess EXCEPT ![a] = 0]
    /\ successRecorded(a, k)
    /\ UNCHANGED <<status, accountLocks, capacityCooldowns>>
    /\ UNCHANGED hookFrame

\* runStreamChatWithCapacityRetry: the catch block for error e of the call on a
StreamCapacityError(a, k, e, aborted) ==
    /\ ~aborted => withinErrorBound(a, k, e)
    /\ LET after == streamCapacityOnError(capacityCooldowns, capacityErrorCounts,
                                          accountLocks, a, k, e, aborted)
       IN  /\ capacityCooldowns' = after.cds
           /\ capacityErrorCounts' = after.counts
           /\ accountLocks' = after.locks
    /\ IF aborted THEN UNCHANGED <<recordedSince, lastOp>> ELSE errorRecorded(a, k, e)
    /\ UNCHANGED <<status, errorCounts, errorsSinceSuccess>>
    /\ UNCHANGED hookFrame

\* runStreamChatWithCapacityRetry: streamChat resolved for the call on a
StreamCapacitySuccess(a, k) ==
    /\ capacityErrorCounts' = markCapacityRecovered(capacityErrorCounts, a, k)
    /\ successRecorded(a, k)
    /\ UNCHANGED <<status, accountLocks, capacityCooldowns, errorCounts, errorsSinceSuccess>>
    /\ UNCHANGED hookFrame

\* runStreamChatWithFullRetry: withFullRetry calls onError for error e of the
\* call on a
StreamFullError(a, k, e, aborted) ==
    /\ ~aborted => withinErrorBound(a, k, e)
    /\ LET after == streamFullOnError(capacityCooldowns, capacityErrorCounts,
                                      accountLocks, a, k, e, withFullRetryCapacity(e), aborted)
       IN  /\ capacityCooldowns' = after.cds
           /\ capacityErrorCounts' = after.counts
           /\ accountLocks' = after.locks
    /\ IF aborted THEN UNCHANGED <<recordedSince, lastOp>> ELSE errorRecorded(a, k, e)
    /\ UNCHANGED <<status, errorCounts, errorsSinceSuccess>>
    /\ UNCHANGED hookFrame

\* runStreamChatWithFullRetry: withFullRetry calls onSuccess for the call on a
StreamFullSuccess(a, k) ==
    /\ capacityErrorCounts' = markCapacityRecovered(capacityErrorCounts, a, k)
    /\ errorCounts' = markAccountSuccess(errorCounts, a)
    /\ errorsSinceSuccess' = [errorsSinceSuccess EXCEPT ![a] = 0]
    /\ successRecorded(a, k)
    /\ UNCHANGED <<status, accountLocks, capacityCooldowns>>
    /\ UNCHANGED hookFrame

\* isAccountInCooldown(a, k) is called: an expired entry is deleted
IsAccountInCooldown(a, k) ==
    /\ capacityCooldowns' = afterCooldownCheck(capacityCooldowns, a, k)
    /\ UNCHANGED <<status, accountLocks, capacityErrorCounts, hookVars>>
    /\ UNCHANGED hookFrame

\* markAccountError(a, error) is called
MarkAccountError(a) ==
    /\ errorsSinceSuccess[a] < MaxAccountErrors
    /\ LET res == markAccountError(errorCounts, a)
       IN  /\ errorCounts' = res.counts
           /\ status' = IF res.disable THEN [status EXCEPT ![a] = "error"] ELSE status
    /\ errorsSinceSuccess' = [errorsSinceSuccess EXCEPT ![a] = @ + 1]
    /\ lastOp' = [kind |-> "accountError", a |-> a, hint |-> << >>]
    /\ UNCHANGED <<accountLocks, capacityCooldowns, capacityErrorCounts, recordedSince>>
    /\ UNCHANGED hookFrame

\* initializeAccount(a): ensureValidToken, then the quota fetch stores q and
\* the account is marked active; with ok false a step of it threw (a failed
\* token refresh marks the account error)
InitializeAccount(a, q, ok) ==
    /\ status[a] = "error"
    /\ IF ok
       THEN /\ tokenValid' = [tokenValid EXCEPT ![a] = TRUE]
            /\ quota' = [quota EXCEPT ![a] = [k \in Keys |-> q]]
            /\ status' = [status EXCEPT ![a] = "active"]
       ELSE UNCHANGED <<tokenValid, quota, status>>
    /\ UNCHANGED <<poolVars, refreshReqs, now, runnerVars, hintedUntil, hookVars, orchVars>>

HookNext ==
    \/ \E a \in Accounts, k \in Keys, e \in Errors : ChatCapacityError(a, k, e)
    \/ \E a \in Accounts, k \in Keys : ChatCapacityReturn(a, k)
    \/ \E a \in Accounts, k \in Keys, e \in Errors : ChatFullError(a, k, e)
    \/ \E a \in Accounts, k \in Keys : ChatFullSuccess(a, k)
    \/ \E a \in Accounts, k \in Keys, e \in Errors, aborted \in BOOLEAN :
          StreamCapacityError(a, k, e, aborted)
    \/ \E a \in Accounts, k \in Keys : StreamCapacitySuccess(a, k)
    \/ \E a \in Accounts, k \in Keys, e \in Errors, aborted \in BOOLEAN :
          StreamFullError(a, k, e, aborted)
    \/ \E a \in Accounts, k \in Keys : StreamFullSuccess(a, k)
    \/ \E a \in Accounts, k \in Keys : IsAccountInCooldown(a, k)
    \/ Tick({})

HookSpec == Init /\ [][HookNext]_vars

ErrorNext ==
    \/ \E a \in Accounts : MarkAccountError(a)
    \/ \E a \in Accounts, k \in Keys : ChatFullSuccess(a, k)
    \/ \E a \in Accounts, k \in Keys : StreamFullSuccess(a, k)
    \/ \E a \in Accounts, q \in QuotaValues, ok \in BOOLEAN : InitializeAccount(a, q, ok)

ErrorSpec == Init /\ [][ErrorNext]_vars

\* ------------------------------------------- one request, attempt by attempt
\* A single request is served by one runner of unleash.js on a pool of up to
\* NumPool accounts.  Its quota stays above the threshold and its tokens stay
\* valid, so an account is a candidate as long as it is active.  An upstream
\* error is a record [kind, hint, status], status the upstreamStatus.

\* the errors an upstream call can reject with
CallErrors ==
    {[kind |-> "capacity", hint |-> h, status |-> 429] : h \in {<< >>, <<ResetSeconds>>}}
    \cup {[kind |-> "serverCapacity", hint |-> << >>, status |-> 429],
          [kind |-> "auth", hint |-> << >>, status |-> 401],
          [kind |-> "refreshTokenInvalid", hint |-> << >>, status |-> 401],
          [kind |-> "nonRetryable", hint |-> << >>, status |-> 400],
          [kind |-> "other", hint |-> << >>, status |-> 500]}

\* everything but the clock that a single-request runner leaves alone
poolFrame == <<status, tokenValid, quota, poolVars, refreshReqs, runnerVars,
               hintedUntil, hookVars, sync, db, tok, helper, conv, onb, hb, ver, think, body, sched>>

\* getNextAccount on the pool: the candidates above the threshold
poolThresholdCandidates == {a \in Pool : pool.status[a] = "active"}

\* getNextAccount on the pool: the concurrency check of the loop
poolLockFull(a) == limitsOn /\ pool.accountLocks[a] >= MAX_CONCURRENT_PER_ACCOUNT

\* getNextAccount on the pool: the candidates the loop counts (consideredCount)
poolConsidered(ex) == poolThresholdCandidates \ ex

\* getNextAccount on the pool: the candidates the loop counts as in cooldown
poolCooled(ex) ==
    {a \in poolConsidered(ex) :
        ~poolLockFull(a) /\ inCooldown(pool.capacityCooldowns, a, DefaultKey)}

\* getNextAccount on the pool: the candidates that pass the three checks; the
\* loop takes the first of them in the order of their quotas
poolSurvivors(ex) ==
    {a \in poolConsidered(ex) :
        ~poolLockFull(a) /\ ~inCooldown(pool.capacityCooldowns, a, DefaultKey)}

\* the least element of a non-empty set of numbers
MinOf(S) == CHOOSE x \in S : \A y \in S : x <= y

\* the error of the candidate loop when the 429 error is thrown for the
\* candidates that passed the concurrency check
poolNoAccountError_AfterFiltering(ex) ==
    LET rest == {a \in poolConsidered(ex) : ~poolLockFull(a)}
    IN  IF ~DISABLE_LOCAL_LIMITS /\ rest # {} /\ poolCooled(ex) = rest
        THEN [kind |-> "thrown", account |-> 0,
              error |-> [kind |-> "capacity", hint |-> << >>, status |-> 429],
              retryAfterMs |-> <<0>>]
        ELSE [kind |-> "thrown", account |-> 0,
              error |-> [kind |-> "noValidAccounts", hint |-> << >>, status |-> 0],
              retryAfterMs |-> << >>]

\* getNextAccount on the pool: the error it throws when no candidate is left
poolNoAccountError(ex) ==
    IF poolThresholdCandidates = {}
    THEN [kind |-> "thrown", account |-> 0,
          error |-> [kind |-> "noActiveAccounts", hint |-> << >>, status |-> 0],
          retryAfterMs |-> << >>]
    ELSE IF /\ ~DISABLE_LOCAL_LIMITS
            /\ poolConsidered(ex) # {}
            /\ poolCooled(ex) = poolConsidered(ex)
    THEN LET earliestCooldownUntil ==
                 MinOf({pool.capacityCooldowns[a][DefaultKey] : a \in poolCooled(ex)})
             remainingMs == Max(0, earliestCooldownUntil - now)
             seconds == Max(0, (remainingMs + MsPerSecond - 1) \div MsPerSecond)
             messageSeconds == Max(0, seconds - 1)
         IN  [kind |-> "thrown", account |-> 0,
              error |-> [kind |-> "capacity", hint |-> <<messageSeconds>>, status |-> 429],
              retryAfterMs |-> <<remainingMs>>]
    ELSE [kind |-> "thrown", account |-> 0,
          error |-> [kind |-> "noValidAccounts", hint |-> << >>, status |-> 0],
          retryAfterMs |-> << >>]

\* a row of request_attempt_logs
attemptLog(a, n, st) == [accountId |-> a, attemptNo |-> n, status |-> st]

\* the history of upstream calls with a call on account a started
callStarted(a) ==
    Append(upstreamCalls, [account |-> a, result |-> "pending", hint |-> << >>])

\* the history of upstream calls with the pending call ended by res, an error
\* kind or "success", and the reset hint of the error
callEnded(res, hint) ==
    [upstreamCalls EXCEPT ![Len(upstreamCalls)].result = res,
                          ![Len(upstreamCalls)].hint = hint]

\* getAccount() of the request-scoped getter, called with the runner locals
\* r0: getNextAccount locks the account it returns and the getter excludes it
\* from the later calls; the upstream call on it starts.  A throw of
\* getNextAccount leaves the runner.
getAccountAndCall(r0) ==
    IF poolSurvivors(r0.excludedAccountIds) = {}
    THEN /\ outcome' = poolNoAccountError(r0.excludedAccountIds)
         /\ run' = [r0 EXCEPT !.pc = "done", !.account = 0]
         /\ UNCHANGED <<pool, attemptLogs, upstreamCalls>>
    ELSE \E a \in poolSurvivors(r0.excludedAccountIds) :
            /\ pool' = [pool EXCEPT
                           !.accountLocks = lockAccount(@, a),
                           !.capacityCooldowns = afterCooldownCheck(@, a, DefaultKey)]
            /\ run' = [r0 EXCEPT !.pc = "calling", !.account = a,
                                 !.excludedAccountIds = @ \cup {a}]
            /\ upstreamCalls' = callStarted(a)
            /\ UNCHANGED <<attemptLogs, outcome>>

\* ------------------------------ runStreamChatWithCapacityRetry, one request
\* the runner is entered: availableCount, effectiveMaxRetries, first attempt
StreamCapacityStart ==
    /\ run.pc = "idle"
    /\ LET availableCount == Cardinality(poolThresholdCandidates)
           maxUniqueAccounts == Max(0, availableCount)
           maxRetriesByPool == Max(0, maxUniqueAccounts - 2)
           maxRetriesByConfig == Max(0, maxRetries)
       IN  getAccountAndCall([NoRun EXCEPT
                                 !.runner = "streamCapacity",
                                 !.attempt = 1,
                                 !.availableCount = availableCount,
                                 !.effectiveMaxRetries =
                                     Min(maxRetriesByPool, maxRetriesByConfig)])
    /\ UNCHANGED <<now, abortSignal, poolFrame>>

\* streamChat resolved: the counter is reset, the row is written, the runner
\* returns and the route handler releases the account.  A call whose signal
\* is aborted rejects (the transport kills its helper process).
StreamCapacityResolved ==
    /\ run.runner = "streamCapacity"
    /\ run.pc = "calling"
    /\ ~abortSignal
    /\ pool' = [pool EXCEPT
                   !.capacityErrorCounts = markCapacityRecovered(@, run.account, DefaultKey),
                   !.accountLocks = routeRelease(@, run.account)]
    /\ attemptLogs' = Append(attemptLogs, attemptLog(run.account, run.attempt, "success"))
    /\ upstreamCalls' = callEnded("success", << >>)
    /\ outcome' = [NoOutcome EXCEPT !.kind = "returned", !.account = run.account]
    /\ run' = [run EXCEPT !.pc = "done"]
    /\ UNCHANGED <<now, abortSignal, poolFrame>>

\* streamChat rejected with e: the catch block.  allowByOutput is the answer
\* of canRetry.
StreamCapacityRejected(e, allowByOutput) ==
    /\ run.runner = "streamCapacity"
    /\ run.pc = "calling"
    /\ LET a == run.account
           capacity == isCapacityError(e)
           serverCapacityExhausted == isServerCapacityExhaustedError(e)
           after == streamCapacityOnError(pool.capacityCooldowns, pool.capacityErrorCounts,
                                          pool.accountLocks, a, DefaultKey, e, abortSignal)
           retryAfterMs == IF capacity /\ ~serverCapacityExhausted /\ ~DISABLE_LOCAL_LIMITS
                           THEN <<capacityCooldownMs(pool.capacityErrorCounts, a, DefaultKey, e)>>
                           ELSE << >>
           resetMs == parseResetAfterMs(e)
           delay == IF resetMs # << >> THEN resetMs[1]
                    ELSE Max(0, baseRetryDelayMs) * run.attempt
       IN  /\ attemptLogs' = Append(attemptLogs,
                                    attemptLog(a, run.attempt,
                                               IF abortSignal THEN "aborted" ELSE "error"))
           /\ upstreamCalls' = callEnded(e.kind, e.hint)
           /\ IF abortSignal
              THEN /\ outcome' = [NoOutcome EXCEPT !.kind = "aborted", !.account = a]
                   /\ pool' = [pool EXCEPT !.accountLocks = routeRelease(@, a)]
                   /\ run' = [run EXCEPT !.pc = "done"]
              ELSE IF capacity
              THEN IF retryAllowed(allowByOutput, run.attempt, run.effectiveMaxRetries)
                   THEN /\ pool' = [pool EXCEPT !.capacityCooldowns = after.cds,
                                                !.capacityErrorCounts = after.counts,
                                                !.accountLocks = after.locks]
                        /\ run' = [run EXCEPT
                                      !.pc = "sleeping",
                                      !.delay = delay,
                                      !.currentAccount = reuseAccount(e, a)]
                        /\ UNCHANGED outcome
                   ELSE /\ pool' = [pool EXCEPT !.capacityCooldowns = after.cds,
                                                !.capacityErrorCounts = after.counts,
                                                !.accountLocks = after.locks]
                        /\ outcome' = [kind |-> "thrown", account |-> a, error |-> e,
                                       retryAfterMs |-> retryAfterMs]
                        /\ run' = [run EXCEPT !.pc = "done"]
              ELSE /\ pool' = [pool EXCEPT !.accountLocks = routeRelease(@, a)]
                   /\ outcome' = [kind |-> "thrown", account |-> a, error |-> e,
                                  retryAfterMs |-> << >>]
                   /\ run' = [run EXCEPT !.pc = "done"]
    /\ UNCHANGED <<now, abortSignal, poolFrame>>

\* sleep(delay) resolved: the next iteration of the while loop
StreamCapacityWake ==
    /\ run.runner = "streamCapacity"
    /\ run.pc = "sleeping"
    /\ now' = now + run.delay
    /\ LET r0 == [run EXCEPT !.attempt = @ + 1, !.delay = 0]
       IN  IF run.currentAccount # 0
           THEN /\ run' = [r0 EXCEPT !.pc = "calling", !.account = run.currentAccount]
                /\ upstreamCalls' = callStarted(run.currentAccount)
                /\ UNCHANGED <<pool, attemptLogs, outcome>>
           ELSE getAccountAndCall(r0)
    /\ UNCHANGED <<abortSignal, poolFrame>>

\* the downstream client disconnects while its request is served
ClientAbort ==
    /\ run.runner \in {"streamCapacity", "streamFull"}
    /\ run.pc \notin {"idle", "done"}
    /\ ~abortSignal
    /\ abortSignal' = TRUE
    /\ UNCHANGED <<now, pool, run, attemptLogs, upstreamCalls, outcome, poolFrame>>

\* a pool of n active accounts, the last c of them in a cooldown that earlier
\* requests left
poolOf(n, c) ==
    [NoPool EXCEPT
        !.status = [a \in Pool |-> IF a <= n THEN "active" ELSE "absent"],
        !.capacityCooldowns =
            [a \in Pool |-> [k \in Keys |->
                IF a <= n /\ a > n - c THEN PriorCooldownMs ELSE 0]]]

RequestInit ==
    /\ PoolInit
    /\ \E n \in 0..NumPool : \E c \in 0..n : pool = poolOf(n, c)
    /\ run = NoRun
    /\ abortSignal = FALSE
    /\ attemptLogs = << >>
    /\ upstreamCalls = << >>
    /\ outcome = NoOutcome
    /\ sched = [k \in Schedulers |-> NoScheduler]
    /\ body = NoBody
    /\ think = NoThinking
    /\ ver = NoVersion
    /\ hb = NoHeartbeat
    /\ onb = NoOnboard
    /\ conv = NoConv
    /\ helper = NoHelper
    /\ tok = NoTok
    /\ db = NoDb
    /\ sync = NoSync

StreamRetryNext ==
    \/ StreamCapacityStart
    \/ StreamCapacityResolved
    \/ \E e \in CallErrors, allowByOutput \in BOOLEAN : StreamCapacityRejected(e, allowByOutput)
    \/ StreamCapacityWake
    \/ ClientAbort

StreamRetrySpec == RequestInit /\ [][StreamRetryNext]_vars

\* ------------------------------------------- the full-retry runners, one request
\* isAuthenticationError and isRefreshTokenInvalidError (route-helpers.js)
isAuthenticationError(e) == e.kind \in {"auth", "refreshTokenInvalid"}

isRefreshTokenInvalidError(e) == e.kind = "refreshTokenInvalid"

\* isNonRetryableError: a 4xx other than 429, or a message of one of the
\* non-retryable classes
isNonRetryableError(e) ==
    \/ (e.status # 0 /\ e.status >= 400 /\ e.status < 500 /\ e.status # 429)
    \/ e.kind = "nonRetryable"

\* a shouldRetryOnSameAccount that forgets error.authHandled
chatShouldRetryOnSameAccount_NoAuthCheck(e, authHandled, capacity) ==
    IF capacity THEN isServerCapacityExhaustedError(e) ELSE TRUE

\* shouldRetryOnSameAccount of runChatWithFullRetry
chatShouldRetryOnSameAccount(e, authHandled, capacity) ==
    IF authHandled THEN FALSE
    ELSE IF capacity THEN isServerCapacityExhaustedError(e)
    ELSE TRUE

\* shouldSwitchAccount of runChatWithFullRetry
chatShouldSwitchAccount(e, authHandled, capacity, availableCount) ==
    IF authHandled THEN FALSE
    ELSE IF capacity /\ isServerCapacityExhaustedError(e) THEN FALSE
    ELSE IF capacity /\ availableCount <= 1 THEN FALSE
    ELSE TRUE

\* shouldRetryOnSameAccount of runStreamChatWithFullRetry
streamShouldRetryOnSameAccount(e, authHandled, capacity, aborted) ==
    IF aborted THEN FALSE
    ELSE IF authHandled THEN FALSE
    ELSE IF isNonRetryableError(e) THEN FALSE
    ELSE IF capacity THEN isServerCapacityExhaustedError(e)
    ELSE TRUE

\* shouldSwitchAccount of runStreamChatWithFullRetry; canRetryOk is the answer
\* of canRetry
streamShouldSwitchAccount(e, authHandled, capacity, aborted, availableCount, canRetryOk) ==
    IF aborted THEN FALSE
    ELSE IF authHandled THEN FALSE
    ELSE IF isNonRetryableError(e) THEN FALSE
    ELSE IF capacity /\ isServerCapacityExhaustedError(e) THEN FALSE
    ELSE IF capacity /\ availableCount <= 1 THEN FALSE
    ELSE IF ~canRetryOk THEN FALSE
    ELSE TRUE

\* withFullRetry after executeRequest threw e for the call on r0.account, with
\* st the account statuses handleAuthErrorWithRefresh left: onError runs, then
\* the same account is tried again while sameRetry < sameAccountRetries and
\* shouldRetryOnSameAccount allows it, else the next account while
\* accountAttempt < maxAccountSwitches and shouldSwitchAccount allows it, else
\* the error is thrown; past the deadline (timedOut) no attempt is started.
\* runStreamChatWithFullRetry turns the throw of an aborted request into a
\* return, and the route handler releases the account it returns.
withFullRetryAfterError(r0, st, e, authHandled, timedOut, canRetryOk) ==
    LET a == r0.account
        stream == r0.runner = "streamFull"
        capacity == withFullRetryCapacity(e)
        after == IF stream
                 THEN streamFullOnError(pool.capacityCooldowns, pool.capacityErrorCounts,
                                        pool.accountLocks, a, DefaultKey, e, capacity,
                                        abortSignal)
                 ELSE chatFullOnError(pool.capacityCooldowns, pool.capacityErrorCounts,
                                      pool.accountLocks, a, DefaultKey, e, capacity)
        marked == capacity /\ ~isServerCapacityExhaustedError(e) /\ ~DISABLE_LOCAL_LIMITS
                  /\ ~(stream /\ abortSignal)
        retryAfterMs == IF marked
                        THEN <<capacityCooldownMs(pool.capacityErrorCounts, a, DefaultKey, e)>>
                        ELSE << >>
        retrySame == IF stream
                     THEN streamShouldRetryOnSameAccount(e, authHandled, capacity, abortSignal)
                     ELSE chatShouldRetryOnSameAccount(e, authHandled, capacity)
        switch == IF stream
                  THEN streamShouldSwitchAccount(e, authHandled, capacity, abortSignal,
                                                 r0.availableCount, canRetryOk)
                  ELSE chatShouldSwitchAccount(e, authHandled, capacity, r0.availableCount)
        r1 == [r0 EXCEPT !.error = e, !.authHandled = authHandled]
        hooked == [pool EXCEPT !.status = st,
                               !.capacityCooldowns = after.cds,
                               !.capacityErrorCounts = after.counts,
                               !.accountLocks = after.locks]
    IN  IF ~timedOut /\ r0.sameRetry < sameAccountRetries /\ retrySame
        THEN /\ run' = [r1 EXCEPT !.pc = "sleepingSame", !.delay = sameAccountRetryDelayMs]
             /\ pool' = hooked
             /\ UNCHANGED outcome
        ELSE IF ~timedOut /\ r0.accountAttempt < r0.maxAccountSwitches /\ switch
        THEN /\ run' = [r1 EXCEPT !.pc = "sleepingSwitch", !.delay = baseRetryDelayMs]
             /\ pool' = hooked
             /\ UNCHANGED outcome
        ELSE IF stream /\ abortSignal
        THEN /\ run' = [r1 EXCEPT !.pc = "done"]
             /\ pool' = [hooked EXCEPT !.accountLocks = routeRelease(@, a)]
             /\ outcome' = [NoOutcome EXCEPT !.kind = "aborted", !.account = a]
        ELSE /\ run' = [r1 EXCEPT !.pc = "done"]
             /\ pool' = hooked
             /\ outcome' = [kind |-> "thrown", account |-> a, error |-> e,
                            retryAfterMs |-> retryAfterMs]

\* the status of a row executeAndLog / streamAndLog writes for a failed call
fullErrorStatus == IF run.runner = "streamFull" /\ abortSignal THEN "aborted" ELSE "error"

\* the bound on the upstream calls of a request
withinCalls == Len(upstreamCalls) < MaxCalls

\* runChatWithFullRetry / runStreamChatWithFullRetry is entered: the first
\* account and the first call
FullStart(rn) ==
    /\ run.pc = "idle"
    /\ LET availableCount == Cardinality(poolThresholdCandidates)
       IN  getAccountAndCall([NoRun EXCEPT
                                 !.runner = rn,
                                 !.attempt = 1,
                                 !.availableCount = availableCount,
                                 !.maxAccountSwitches = Max(0, availableCount - 1)])
    /\ UNCHANGED <<now, abortSignal, poolFrame>>

\* the call resolved, at once or re-executed after a token refresh: the row
\* is written, onSuccess runs, the runner returns and the route handler
\* releases the account
FullResolved ==
    /\ run.runner \in {"chatFull", "streamFull"}
    /\ run.pc \in {"calling", "recalling"}
    /\ ~abortSignal
    /\ pool' = [pool EXCEPT
                   !.capacityErrorCounts = markCapacityRecovered(@, run.account, DefaultKey),
                   !.accountLocks = routeRelease(@, run.account)]
    /\ attemptLogs' = Append(attemptLogs, attemptLog(run.account, run.attempt, "success"))
    /\ upstreamCalls' = callEnded("success", << >>)
    /\ outcome' = [NoOutcome EXCEPT !.kind = "returned", !.account = run.account]
    /\ run' = [run EXCEPT !.pc = "done"]
    /\ UNCHANGED <<now, abortSignal, poolFrame>>

\* the call rejected with e: the row is written; an authentication error goes
\* to handleAuthErrorWithRefresh, which marks the account error when the
\* refresh token is invalid and awaits forceRefreshToken otherwise
FullRejected(e, timedOut, canRetryOk) ==
    /\ run.runner \in {"chatFull", "streamFull"}
    /\ run.pc = "calling"
    /\ attemptLogs' = Append(attemptLogs, attemptLog(run.account, run.attempt, fullErrorStatus))
    /\ upstreamCalls' = callEnded(e.kind, e.hint)
    /\ IF isAuthenticationError(e)
       THEN IF isRefreshTokenInvalidError(e)
            THEN withFullRetryAfterError(run, [pool.status EXCEPT ![run.account] = "error"],
                                         e, TRUE, timedOut, canRetryOk)
            ELSE /\ run' = [run EXCEPT !.pc = "refreshing", !.error = e,
                                       !.forceRefreshes = @ + 1]
                 /\ UNCHANGED <<pool, outcome>>
       ELSE withFullRetryAfterError(run, pool.status, e, FALSE, timedOut, canRetryOk)
    /\ UNCHANGED <<now, abortSignal, poolFrame>>

\* forceRefreshToken resolved: with a new token the call is executed again on
\* the same account; with null the account is marked error
FullRefreshDone(ok, timedOut, canRetryOk) ==
    /\ run.runner \in {"chatFull", "streamFull"}
    /\ run.pc = "refreshing"
    /\ IF ok
       THEN /\ run' = [run EXCEPT !.pc = "recalling", !.attempt = @ + 1]
            /\ upstreamCalls' = callStarted(run.account)
            /\ UNCHANGED <<pool, outcome>>
       ELSE /\ withFullRetryAfterError([run EXCEPT !.refreshFailed = TRUE],
                                       [pool.status EXCEPT ![run.account] = "error"],
                                       run.error, TRUE, timedOut, canRetryOk)
            /\ UNCHANGED upstreamCalls
    /\ UNCHANGED <<now, abortSignal, attemptLogs, poolFrame>>

\* the re-executed call rejected with e: the row is written, the account is
\* marked error and executeRequest throws the first error, authHandled
FullReRejected(e, timedOut, canRetryOk) ==
    /\ run.runner \in {"chatFull", "streamFull"}
    /\ run.pc = "recalling"
    /\ attemptLogs' = Append(attemptLogs, attemptLog(run.account, run.attempt, fullErrorStatus))
    /\ upstreamCalls' = callEnded(e.kind, e.hint)
    /\ withFullRetryAfterError(run, [pool.status EXCEPT ![run.account] = "error"],
                               run.error, TRUE, timedOut, canRetryOk)
    /\ UNCHANGED <<now, abortSignal, poolFrame>>

\* the delay of withFullRetry resolved: the next call on the same account, or
\* getAccount and the first call on the next one
FullWake ==
    /\ run.runner \in {"chatFull", "streamFull"}
    /\ run.pc \in {"sleepingSame", "sleepingSwitch"}
    /\ withinCalls
    /\ now' = now + run.delay
    /\ LET r0 == [run EXCEPT !.attempt = @ + 1, !.delay = 0, !.error = NoError,
                             !.authHandled = FALSE]
       IN  IF run.pc = "sleepingSame"
           THEN /\ run' = [r0 EXCEPT !.pc = "calling", !.sameRetry = @ + 1]
                /\ upstreamCalls' = callStarted(run.account)
                /\ UNCHANGED <<pool, attemptLogs, outcome>>
           ELSE getAccountAndCall([r0 EXCEPT !.sameRetry = 0, !.accountAttempt = @ + 1])
    /\ UNCHANGED <<abortSignal, poolFrame>>

FullRetryNext ==
    \/ \E rn \in {"chatFull", "streamFull"} : FullStart(rn)
    \/ FullResolved
    \/ \E e \in CallErrors, timedOut \in BOOLEAN, canRetryOk \in BOOLEAN :
          FullRejected(e, timedOut, canRetryOk)
    \/ \E ok \in BOOLEAN, timedOut \in BOOLEAN, canRetryOk \in BOOLEAN :
          FullRefreshDone(ok, timedOut, canRetryOk)
    \/ \E e \in CallErrors, timedOut \in BOOLEAN, canRetryOk \in BOOLEAN :
          FullReRejected(e, timedOut, canRetryOk)
    \/ FullWake
    \/ ClientAbort

FullRetrySpec == RequestInit /\ [][FullRetryNext]_vars

\* ------------------------------------------------- quota sync of one account
\* the ids of AVAILABLE_MODELS
AVAILABLE_MODELS ==
    {"gemini-3-flash", "gemini-3-flash-thinking", "gemini-2.5-pro", "gemini-2.5-flash",
     "gemini-2.5-flash-thinking", "gemini-2.5-flash-lite", "gemini-3.1-pro-high",
     "gemini-3.1-pro-low", "gemini-3-pro-image", "claude-opus-4-6",
     "claude-opus-4-6-thinking", "claude-sonnet-4-6", "claude-sonnet-4-6-thinking"}

\* MODEL_MAPPING, as pairs <<requested, sent>>
MODEL_MAPPING ==
    {<<"claude-opus-4-6", "claude-opus-4-6-thinking">>,
     <<"claude-4-6-thinking", "claude-opus-4-6-thinking">>,
     <<"claude-4-6", "claude-opus-4-6-thinking">>,
     <<"claude-sonnet-4-6-thinking", "claude-sonnet-4-6">>,
     <<"claude-opus-4-5", "claude-opus-4-6-thinking">>,
     <<"claude-opus-4-5-thinking", "claude-opus-4-6-thinking">>,
     <<"claude-4-5-thinking", "claude-opus-4-6-thinking">>,
     <<"claude-4-5", "claude-opus-4-6-thinking">>,
     <<"claude-sonnet-4-5", "claude-sonnet-4-6">>,
     <<"claude-sonnet-4-5-thinking", "claude-sonnet-4-6">>,
     <<"claude-haiku-4-5-20251001", "claude-opus-4-6">>,
     <<"gemini-2.5-flash-thinking", "gemini-2.5-flash">>,
     <<"gemini-3-flash-thinking", "gemini-3-flash">>,
     <<"gemini-2.0-flash", "gemini-2.5-flash">>,
     <<"gemini-2.0-flash-thinking", "gemini-2.5-flash">>,
     <<"gemini-2.0-pro", "gemini-2.5-pro">>,
     <<"gemini-1.5-flash", "gemini-2.5-flash">>,
     <<"gemini-1.5-pro", "gemini-2.5-pro">>,
     <<"gemini-flash", "gemini-2.5-flash">>,
     <<"gemini-pro", "gemini-2.5-pro">>}

getMappedModel(model) ==
    IF \E p \in MODEL_MAPPING : p[1] = model
    THEN (CHOOSE p \in MODEL_MAPPING : p[1] = model)[2]
    ELSE model

QUOTA_RELEVANT_MODELS == {getMappedModel(m) : m \in AVAILABLE_MODELS}

\* isImageGenerationModel, on the ids of CatalogModels: the one that is
\* "gemini-3-pro-image" or contains "-image"
isImageGenerationModel(model) == model \in {"gemini-3-pro-image"}

\* the numbers a quotaInfo.remainingFraction may hold, in hundredths
Fractions == {0 - 50, 50, 100, 150}

\* what models[modelId] may be: no such key, a falsy value, an object without
\* quotaInfo, or one with quotaInfo whose remainingFraction is missing or not
\* a finite number (<< >>) or a number (<<n>>)
ModelInfos ==
    {[kind |-> k, remainingFraction |-> << >>] :
        k \in {"absent", "null", "noQuotaInfo", "quotaInfo"}}
    \cup {[kind |-> "quotaInfo", remainingFraction |-> <<n>>] : n \in Fractions}

\* new Date(quotaInfo.resetTime).getTime() of the i-th id of CatalogModels
\* (0 = null)
resetTimeOf(i) == i

toQuotaFraction(value, fallback) ==
    IF value = << >> THEN fallback ELSE Max(0, Min(QuotaUnit, value[1]))

\* the keys of Object.entries(models), the relevant ones only or all, in the order of the response
RECURSIVE entriesOf(_, _, _)
entriesOf(order, models, relevantOnly) ==
    IF order = << >> THEN << >>
    ELSE LET i == Head(order)
             rest == entriesOf(Tail(order), models, relevantOnly)
         IN  IF models[i].kind # "absent"
                /\ (relevantOnly => CatalogModels[i] \in QUOTA_RELEVANT_MODELS)
             THEN <<i>> \o rest
             ELSE rest

\* the loop of fetchQuotaInfo over entriesToScan, from its n-th entry on, acc
\* holding minQuota, minQuotaResetTime, sawQuotaSignal and the rows
\* upsertAccountModelQuota wrote
RECURSIVE scanEntries(_, _, _, _)
scanEntries(entriesToScan, n, models, acc) ==
    IF n > Len(entriesToScan) THEN acc
    ELSE LET i == entriesToScan[n]
             modelInfo == models[i]
             isRelevant == CatalogModels[i] \in QUOTA_RELEVANT_MODELS
             isImageModel == isImageGenerationModel(CatalogModels[i])
             shouldAffectOverall == isRelevant /\ ~isImageModel
             remainingFraction == toQuotaFraction(modelInfo.remainingFraction, 0)
             resetTimestamp == resetTimeOf(i)
         IN  IF modelInfo.kind = "null"
             THEN scanEntries(entriesToScan, n + 1, models, acc)
             ELSE IF modelInfo.kind = "noQuotaInfo"
             THEN scanEntries(entriesToScan, n + 1, models,
                     IF isRelevant
                     THEN [acc EXCEPT
                             !.sawQuotaSignal = TRUE,
                             !.rows[i] = <<0, 0>>,
                             !.minQuota = IF shouldAffectOverall THEN 0 ELSE @,
                             !.minQuotaResetTime = IF shouldAffectOverall THEN 0 ELSE @]
                     ELSE acc)
             ELSE scanEntries(entriesToScan, n + 1, models,
                     [acc EXCEPT
                        !.sawQuotaSignal = TRUE,
                        !.rows[i] = IF isRelevant THEN <<remainingFraction, resetTimestamp>>
                                    ELSE @,
                        !.minQuota = IF shouldAffectOverall /\ remainingFraction < @
                                     THEN remainingFraction ELSE @,
                        !.minQuotaResetTime =
                            IF shouldAffectOverall /\ remainingFraction < acc.minQuota
                            THEN resetTimestamp ELSE @])

\* fetchQuotaInfo(account, model) with an ok response (model 0 = null): what
\* it stores and what it returns
fetchQuotaInfo(s, model) ==
    LET relevantEntries == entriesOf(s.order, s.models, TRUE)
        entriesToScan == IF Len(relevantEntries) > 0 THEN relevantEntries
                         ELSE entriesOf(s.order, s.models, FALSE)
        scanned == scanEntries(entriesToScan, 1, s.models,
                               [minQuota |-> QuotaUnit, minQuotaResetTime |-> 0,
                                sawQuotaSignal |-> FALSE, rows |-> s.rows])
        minQuota == IF scanned.sawQuotaSignal THEN scanned.minQuota ELSE 0
        minQuotaResetTime == IF scanned.sawQuotaSignal THEN scanned.minQuotaResetTime ELSE 0
        selected ==
            IF model = 0 THEN << >>
            ELSE IF s.models[model].kind = "quotaInfo"
            THEN <<toQuotaFraction(s.models[model].remainingFraction, 0), resetTimeOf(model)>>
            ELSE IF s.models[model].kind = "noQuotaInfo"
                    /\ CatalogModels[model] \in QUOTA_RELEVANT_MODELS
            THEN <<0, 0>>
            ELSE << >>
    IN  [s EXCEPT !.phase = "synced",
                  !.rows = scanned.rows,
                  !.quota_remaining = minQuota,
                  !.quota_reset_time = minQuotaResetTime,
                  !.returned = IF selected # << >> THEN selected
                               ELSE <<minQuota, minQuotaResetTime>>]

syncFrame == <<status, tokenValid, quota, poolVars, refreshReqs, now, runnerVars,
               hintedUntil, hookVars, pool, run, abortSignal, attemptLogs,
               upstreamCalls, outcome, db, tok, helper, conv, onb, hb, ver, think, body, sched>>

\* the catalog request was answered with an ok response
FetchQuotaInfo(model) ==
    /\ sync.phase = "idle"
    /\ sync' = fetchQuotaInfo(sync, model)
    /\ UNCHANGED syncFrame

\* the catalog request failed or was answered with an error status: the
\* function throws before it stores anything
FetchQuotaInfoFailed ==
    /\ sync.phase = "idle"
    /\ sync' = [sync EXCEPT !.phase = "failed"]
    /\ UNCHANGED syncFrame

\* an account with an aggregate quota from an earlier sync, and the catalog
\* the upstream is about to answer with, in one of two orders
QuotaSyncInit ==
    /\ PoolInit
    /\ pool = NoPool
    /\ run = NoRun
    /\ abortSignal = FALSE
    /\ attemptLogs = << >>
    /\ upstreamCalls = << >>
    /\ outcome = NoOutcome
    /\ sched = [k \in Schedulers |-> NoScheduler]
    /\ body = NoBody
    /\ think = NoThinking
    /\ ver = NoVersion
    /\ hb = NoHeartbeat
    /\ onb = NoOnboard
    /\ conv = NoConv
    /\ helper = NoHelper
    /\ tok = NoTok
    /\ db = NoDb
    /\ \E models \in [1..Len(CatalogModels) -> ModelInfos],
          order \in {<<1, 2, 3, 4>>, <<4, 3, 2, 1>>},
          q \in {0, QuotaUnit} :
          sync = [NoSync EXCEPT !.phase = "idle", !.order = order, !.models = models,
                                !.quota_remaining = q]

QuotaSyncNext ==
    \/ \E model \in 0..Len(CatalogModels) : FetchQuotaInfo(model)
    \/ FetchQuotaInfoFailed

QuotaSyncSpec == QuotaSyncInit /\ [][QuotaSyncNext]_vars

\* ------------------------------------------------- db/index.js, three tables
\* getActiveAccounts(model, {minQuotaRemaining}) on d: the rows it returns, as
\* [id, quota_remaining] (model "" = null). A group key joins the quota row of
\* (account, key) and takes a missing row as 0; a raw model prefers the row
\* and falls back on the aggregate quota of the account.
getActiveAccountRows(d, model, minQuotaRemaining) ==
    LET active == {a \in DbAccounts : d.status[a] = "active"}
        q(a) == d.model_quotas[a][model]
    IN  IF model = ""
        THEN {[id |-> a, quota_remaining |-> d.quota_remaining[a]] :
                 a \in {x \in active : d.quota_remaining[x] > minQuotaRemaining}}
        ELSE IF model \in GroupKeys
        THEN {[id |-> a, quota_remaining |-> IF q(a) = << >> THEN 0 ELSE q(a)[1]] :
                 a \in {x \in active :
                           (IF q(x) = << >> THEN 0 ELSE q(x)[1]) >= minQuotaRemaining}}
        ELSE {[id |-> a,
               quota_remaining |-> IF q(a) = << >> THEN d.quota_remaining[a] ELSE q(a)[1]] :
                 a \in {x \in active : q(x) = << >> \/ q(x)[1] > minQuotaRemaining}}

\* a threshold filter that lets a quota equal to the threshold pass
thresholdCandidateRows_AtLeast(rows, minQuotaThreshold) ==
    {r \in rows : r.quota_remaining >= minQuotaThreshold}

\* thresholdCandidates of getNextAccount, from the rows of getActiveAccounts
thresholdCandidateRows(rows, minQuotaThreshold) ==
    {r \in rows : r.quota_remaining > minQuotaThreshold}

\* an insert that skips the foreign key of request_attempt_logs.account_id
safeCreateAttemptLog_NoForeignKey(d, accountId) ==
    [d EXCEPT !.attempt_logs = Append(@, accountId)]

\* safeCreateAttemptLog: createRequestAttemptLog inserts the row unless the
\* foreign key on accounts(id) fails (foreign_keys = ON); the error is dropped
safeCreateAttemptLog(d, accountId) ==
    IF d.status[accountId] # "absent"
    THEN [d EXCEPT !.attempt_logs = Append(@, accountId)]
    ELSE [d EXCEPT !.rejected = @ \cup {<<"request_attempt_logs", accountId>>}]

syncedFrame == <<status, tokenValid, quota, poolVars, refreshReqs, now, runnerVars,
                 hintedUntil, hookVars, pool, run, abortSignal, attemptLogs,
                 upstreamCalls, outcome, sync, tok, helper, conv, onb, hb, ver, think, body, sched>>

\* createAccount: AUTOINCREMENT hands out an id never used before
CreateAccount ==
    /\ db.seq < NumDbAccounts
    /\ db' = [db EXCEPT !.seq = @ + 1,
                        !.status[db.seq + 1] = "active",
                        !.quota_remaining[db.seq + 1] = QuotaUnit]
    /\ UNCHANGED syncedFrame

\* updateAccountStatus(id, status)
UpdateAccountStatus(id, st) ==
    /\ db.status[id] \notin {"absent", st}
    /\ db' = [db EXCEPT !.status[id] = st]
    /\ UNCHANGED syncedFrame

\* upsertAccountModelQuota(accountId, model, quotaRemaining, null), from a
\* quota sync that read the account before: the insert fails on the foreign
\* key when the account is gone
UpsertAccountModelQuota(accountId, model, quotaRemaining) ==
    /\ accountId <= db.seq
    /\ db' = IF db.status[accountId] # "absent"
             THEN [db EXCEPT !.model_quotas[accountId][model] = <<quotaRemaining>>]
             ELSE [db EXCEPT !.rejected = @ \cup {<<"account_model_quotas", accountId>>}]
    /\ db' # db
    /\ UNCHANGED syncedFrame

\* a request is given the account and starts an upstream call on it
DispatchAttempt(id) ==
    /\ db.status[id] = "active"
    /\ db.in_flight[id] = 0
    /\ db' = [db EXCEPT !.in_flight[id] = 1]
    /\ UNCHANGED syncedFrame

\* the call ended and the runner writes its attempt-log row
FinishAttempt(id) ==
    /\ db.in_flight[id] > 0
    /\ Len(db.attempt_logs) < MaxAttemptLogs
    /\ db' = [safeCreateAttemptLog(db, id) EXCEPT !.in_flight[id] = 0]
    /\ UNCHANGED syncedFrame

\* deleteAccount(id): the log rows are detached, the quota rows and the
\* account row deleted, in one synchronous run
DeleteAccount(id) ==
    /\ db.status[id] # "absent"
    /\ db' = [db EXCEPT
                 !.attempt_logs = [i \in DOMAIN @ |-> IF @[i] = id THEN 0 ELSE @[i]],
                 !.model_quotas[id] = [m \in DbModels |-> << >>],
                 !.status[id] = "absent",
                 !.deleted = @ \cup {id}]
    /\ UNCHANGED syncedFrame

DbNext ==
    \/ CreateAccount
    \/ \E id \in DbAccounts, st \in {"active", "error"} : UpdateAccountStatus(id, st)
    \/ \E id \in DbAccounts, model \in DbModels, q \in {0, QuotaUnit} :
          UpsertAccountModelQuota(id, model, q)
    \/ \E id \in DbAccounts : DispatchAttempt(id)
    \/ \E id \in DbAccounts : FinishAttempt(id)
    \/ \E id \in DbAccounts : DeleteAccount(id)

DbSpec == Init /\ [][DbNext]_vars

\* ------------------------------------- ensureValidToken, time in minutes
\* a test that lets a token pass that expires exactly at the buffer
needsRefresh_Late(t, time) ==
    \/ ~t.access_token
    \/ t.token_expires_at = 0
    \/ time > t.token_expires_at - TOKEN_REFRESH_BUFFER

\* needsRefresh of ensureValidToken (token_expires_at 0 = missing)
needsRefresh(t, time) ==
    \/ ~t.access_token
    \/ t.token_expires_at = 0
    \/ time >= t.token_expires_at - TOKEN_REFRESH_BUFFER

tokenFrame == <<status, tokenValid, quota, poolVars, refreshReqs, now, runnerVars,
                hintedUntil, hookVars, pool, run, abortSignal, attemptLogs,
                upstreamCalls, outcome, sync, db, helper, conv, onb, hb, ver, think, body, sched>>

\* getNextAccount calls ensureValidToken(account): a token that needs no
\* refresh is returned at once, otherwise refreshAccessToken is awaited
EnsureValidToken ==
    /\ tok.pc = "idle"
    /\ tok' = IF needsRefresh(tok, tok.clock)
              THEN [tok EXCEPT !.pc = "refreshing", !.now = tok.clock]
              ELSE [tok EXCEPT !.pc = "returned", !.now = tok.clock,
                               !.returnedAt = tok.clock]
    /\ UNCHANGED tokenFrame

\* a minute passes
TokenClock ==
    /\ tok.pc \in {"idle", "refreshing"}
    /\ tok.clock < MaxClock
    /\ tok' = [tok EXCEPT !.clock = @ + 1]
    /\ UNCHANGED tokenFrame

\* the token endpoint answered with a token that lives expires_in minutes
RefreshAccessTokenResolved(expires_in) ==
    /\ tok.pc = "refreshing"
    /\ tok' = [tok EXCEPT !.pc = "returned",
                          !.access_token = TRUE,
                          !.token_expires_at = tok.now + expires_in,
                          !.expires_in = expires_in,
                          !.refreshed = TRUE,
                          !.returnedAt = tok.clock]
    /\ UNCHANGED tokenFrame

\* the token endpoint refused: refreshAccessToken marks the account error and
\* throws, getNextAccount goes on with the next candidate
RefreshAccessTokenRejected ==
    /\ tok.pc = "refreshing"
    /\ tok' = [tok EXCEPT !.pc = "thrown"]
    /\ UNCHANGED tokenFrame

\* an account as getActiveAccounts read it: with or without a token, expiring
\* sooner or later
TokenInit ==
    /\ PoolInit
    /\ pool = NoPool
    /\ run = NoRun
    /\ abortSignal = FALSE
    /\ attemptLogs = << >>
    /\ upstreamCalls = << >>
    /\ outcome = NoOutcome
    /\ sched = [k \in Schedulers |-> NoScheduler]
    /\ body = NoBody
    /\ think = NoThinking
    /\ ver = NoVersion
    /\ hb = NoHeartbeat
    /\ onb = NoOnboard
    /\ conv = NoConv
    /\ helper = NoHelper
    /\ sync = NoSync
    /\ db = NoDb
    /\ \E access_token \in BOOLEAN, token_expires_at \in 0..(MaxClock + TOKEN_REFRESH_BUFFER + 2) :
          tok = [NoTok EXCEPT !.pc = "idle", !.access_token = access_token,
                              !.token_expires_at = token_expires_at]

TokenNext ==
    \/ EnsureValidToken
    \/ TokenClock
    \/ \E expires_in \in ExpiresIn : RefreshAccessTokenResolved(expires_in)
    \/ RefreshAccessTokenRejected

TokenSpec == TokenInit /\ [][TokenNext]_vars

\* ----------------------------- fingerprint-requester.js, one helper process
\* reject(...) of the promise: only the first settlement counts
rejectWith(h, code, msg) ==
    IF h.settled = "pending" THEN [h EXCEPT !.settled = code, !.message = msg] ELSE h

\* msg of the close handler: JSON.parse(stderrData).error, else the trimmed
\* stderr text, else the default
exitMessage(stderrData) ==
    CASE stderrData = "json_error" -> "stderr.error"
      [] stderrData = "text" -> "stderr"
      [] OTHER -> "exited with code"

helperFrame == <<status, tokenValid, quota, poolVars, refreshReqs, now, runnerVars,
                 hintedUntil, hookVars, pool, run, abortSignal, attemptLogs,
                 upstreamCalls, outcome, sync, db, tok, conv, onb, hb, ver, think, body, sched>>

\* binaryFetch / streamBinaryFetch up to stdin.end(): spawn, arm the timer,
\* and with a signal that is already aborted kill and reject before any
\* handler is attached
BinaryFetch(kind, aborted) ==
    /\ helper.proc = "none"
    /\ helper' =
          LET h == [helper EXCEPT !.kind = kind, !.timer = TRUE,
                                  !.stream = IF kind = "stream" THEN "open" ELSE "none"]
          IN  IF aborted
              THEN [h EXCEPT !.proc = "killed", !.exit = "abort",
                             !.settled = "ERR_CANCELED", !.message = "Request aborted"]
              ELSE [h EXCEPT !.proc = "running", !.attached = TRUE, !.listening = TRUE]
    /\ UNCHANGED helperFrame

\* proc.stderr.on('data')
HelperStderr(data) ==
    /\ helper.proc = "running"
    /\ helper.attached
    /\ helper.stderrData = ""
    /\ helper' = [helper EXCEPT !.stderrData = data]
    /\ UNCHANGED helperFrame

\* proc.stdout.on('data') with the end of the headers: the timer is cleared;
\* streamBinaryFetch resolves here
HelperHeaders ==
    /\ helper.proc = "running"
    /\ helper.attached
    /\ ~helper.headersParsed
    /\ helper' = [helper EXCEPT
                     !.headersParsed = TRUE,
                     !.timer = FALSE,
                     !.settled = IF helper.kind = "stream" /\ @ = "pending"
                                 THEN "resolved" ELSE @]
    /\ UNCHANGED helperFrame

\* the setTimeout callback: kill and reject ECONNABORTED
HelperTimeout ==
    /\ helper.timer
    /\ helper' = [rejectWith(helper, "ECONNABORTED", "timeout") EXCEPT
                     !.timer = FALSE,
                     !.proc = IF @ = "running" THEN "killed" ELSE @,
                     !.exit = IF helper.proc = "running" THEN "timeout" ELSE @]
    /\ UNCHANGED helperFrame

\* onAbort: kill, clear the timer, close the stream, reject ERR_CANCELED
HelperAbort ==
    /\ helper.listening
    /\ helper' = [rejectWith(helper, "ERR_CANCELED", "Request aborted") EXCEPT
                     !.listening = FALSE,
                     !.timer = FALSE,
                     !.stream = IF @ = "open" THEN "closed" ELSE @,
                     !.proc = IF @ = "running" THEN "killed" ELSE @,
                     !.exit = IF helper.proc = "running" THEN "abort" ELSE @]
    /\ UNCHANGED helperFrame

\* proc.on('error'): the binary could not be started
HelperSpawnError ==
    /\ helper.proc = "running"
    /\ helper.attached
    /\ ~helper.headersParsed
    /\ helper.stderrData = ""
    /\ helper' = [rejectWith(helper, "ERR_SPAWN", "Failed to spawn") EXCEPT
                     !.timer = FALSE, !.proc = "failed", !.exit = "spawn"]
    /\ UNCHANGED helperFrame

\* proc.on('close', code): code 0 or 1 when the helper ended by itself, -1
\* (null or a negative errno) after a kill or a failed spawn. binaryFetch
\* rejects ERR_NETWORK on code # 0 and resolves otherwise; streamBinaryFetch
\* closes the stream and rejects ERR_NETWORK only before the headers
HelperClose(code) ==
    /\ helper.proc \in {"running", "killed", "failed"}
    /\ (helper.proc = "running") = (code \in {0, 1})
    /\ helper' =
          LET h == [helper EXCEPT
                       !.proc = "closed",
                       !.exit = IF helper.proc = "running"
                                THEN (IF code = 0 THEN "zero" ELSE "nonzero") ELSE @]
              msg == exitMessage(helper.stderrData)
          IN  IF ~helper.attached THEN h
              ELSE IF helper.kind = "fetch"
              THEN [(IF code # 0 THEN rejectWith(h, "ERR_NETWORK", msg)
                     ELSE [h EXCEPT !.settled = IF @ = "pending" THEN "resolved" ELSE @])
                       EXCEPT !.timer = FALSE]
              ELSE [(IF ~helper.headersParsed THEN rejectWith(h, "ERR_NETWORK", msg) ELSE h)
                       EXCEPT !.timer = FALSE,
                              !.stream = IF @ = "open" THEN "closed" ELSE @]
    /\ UNCHANGED helperFrame

HelperNext ==
    \/ \E kind \in {"fetch", "stream"}, aborted \in BOOLEAN : BinaryFetch(kind, aborted)
    \/ \E data \in {"json_error", "json_other", "text"} : HelperStderr(data)
    \/ HelperHeaders
    \/ HelperTimeout
    \/ HelperAbort
    \/ HelperSpawnError
    \/ \E code \in {0 - 1, 0, 1} : HelperClose(code)

HelperSpec == Init /\ [][HelperNext]_vars

\* ------------------------------------------------- openai-converter.js
\* String(model).includes('claude') / includes('gemini'), on the two models
\* of the model
isClaudeModel(model) == model = "claude-sonnet-4-6"

isGeminiModel(model) == model = "gemini-2.5-pro"

looksLikeClaudeToolId(id) == id \in {"toolu_1", "toolu_2"}

OPENAI_THINKING_INCLUDE_REASONING(output) == output \in {"reasoning_content", "both"}

OPENAI_THINKING_INCLUDE_TAGS(output) == output \in {"tags", "both"}

\* a part of candidate.content.parts: k its kind, text whether part.text is a
\* non-empty string, sig its thoughtSignature, id the functionCall id
StreamPart(k, text, sig, id) == [k |-> k, text |-> text, sig |-> sig, id |-> id]

StreamParts ==
    {StreamPart("thought", TRUE, "sigA", ""), StreamPart("thought", TRUE, "", ""),
     StreamPart("thought", FALSE, "sigB", ""), StreamPart("text", TRUE, "", ""),
     StreamPart("functionCall", FALSE, "", "toolu_1"),
     StreamPart("functionCall", FALSE, "sigB", "toolu_2"),
     StreamPart("functionCall", FALSE, "", "call_1"),
     StreamPart("inlineData", FALSE, "", "")}

\* one chunk of the OpenAI stream: delta names what choices[0].delta holds
Chunk(delta, id, finish_reason) ==
    [delta |-> delta, index |-> 0, id |-> id, finish_reason |-> finish_reason]

\* cacheClaudeToolThinking(id, signature, thoughtText) of the signature cache
cacheClaudeToolThinking(c, id, signature) ==
    [c EXCEPT !.claudeToolThinking[id] = signature]

\* getCachedClaudeToolThinking(id)?.signature, "" on a miss
getCachedClaudeToolThinking(c, id) == c.claudeToolThinking[id]

\* flushClaudePendingToolCalls: the buffered signature is cached for every
\* pending tool call id
flushClaudePendingToolCalls(c) ==
    IF \/ ~isClaudeModel(c.model)
       \/ c.claudeBuf.signature = ""
       \/ c.claudeBuf.pendingToolCallIds = << >>
    THEN c
    ELSE [c EXCEPT
             !.claudeToolThinking =
                 [id \in ToolCallIds |->
                     IF \E i \in DOMAIN c.claudeBuf.pendingToolCallIds :
                            c.claudeBuf.pendingToolCallIds[i] = id
                     THEN c.claudeBuf.signature ELSE @[id]],
             !.claudeBuf.pendingToolCallIds = << >>]

\* a test for leaving thinking mode that overlooks tool calls
leavesThinking_TextOnly(part) == part.k = "text"

\* part.text !== undefined || part.functionCall || part.inlineData
leavesThinking(part) == part.k \in {"text", "functionCall", "inlineData"}

\* the body of the loop over parts in convertSSEChunk
convertPart(c, part) ==
    IF part.k = "thought"
    THEN LET c1 == IF isClaudeModel(c.model)
                   THEN flushClaudePendingToolCalls(
                            [c EXCEPT !.claudeBuf.signature =
                                          IF part.sig # "" THEN part.sig ELSE @,
                                      !.buffered = TRUE])
                   ELSE c
             shown == c.includeThinking /\ part.text
             c2 == IF shown /\ OPENAI_THINKING_INCLUDE_REASONING(c.output)
                   THEN [c1 EXCEPT !.chunks = Append(@, Chunk("reasoning_content", "", ""))]
                   ELSE c1
         IN  IF shown /\ OPENAI_THINKING_INCLUDE_TAGS(c.output)
             THEN [c2 EXCEPT
                      !.chunks = Append(@, Chunk(IF c.thinkingState THEN "thought"
                                                 ELSE "<think>", "", "")),
                      !.thinkingState = TRUE]
             ELSE c2
    ELSE LET c1 == IF /\ OPENAI_THINKING_INCLUDE_TAGS(c.output)
                      /\ c.thinkingState
                      /\ leavesThinking(part)
                   THEN [c EXCEPT !.chunks = Append(@, Chunk("</think>", "", "")),
                                  !.thinkingState = FALSE]
                   ELSE c
         IN  CASE part.k = "functionCall" ->
                    LET c2 == [c1 EXCEPT
                                  !.toolCallSeen = TRUE,
                                  !.toolThoughtSignature[part.id] =
                                      IF part.sig # "" /\ isGeminiModel(c.model)
                                      THEN part.sig ELSE @]
                        signature == IF c2.claudeBuf.signature # ""
                                     THEN c2.claudeBuf.signature ELSE part.sig
                        c3 == IF ~isClaudeModel(c.model) THEN c2
                              ELSE IF signature # ""
                              THEN flushClaudePendingToolCalls(
                                       cacheClaudeToolThinking(
                                           [c2 EXCEPT !.claudeBuf.signature = signature],
                                           part.id, signature))
                              ELSE [c2 EXCEPT
                                       !.claudeBuf.pendingToolCallIds = Append(@, part.id),
                                       !.buffered = TRUE]
                    IN  [c3 EXCEPT !.chunks = Append(@, Chunk("tool_calls", part.id, ""))]
               [] part.k = "text" ->
                    [c1 EXCEPT !.chunks = Append(@, Chunk("content", "", ""))]
               [] part.k = "inlineData" ->
                    [c1 EXCEPT !.chunks = Append(@, Chunk("image", "", ""))]
               [] OTHER -> c1

RECURSIVE convertParts(_, _)
convertParts(c, parts) ==
    IF parts = << >> THEN c
    ELSE convertParts(convertPart(c, Head(parts)), Tail(parts))

\* the finish block of convertSSEChunk
convertFinish(c) ==
    LET c1 == [flushClaudePendingToolCalls(c) EXCEPT
                  !.buffered = FALSE,
                  !.claudeBuf = NoConv.claudeBuf]
        c2 == IF OPENAI_THINKING_INCLUDE_TAGS(c.output) /\ c1.thinkingState
              THEN [c1 EXCEPT !.chunks = Append(@, Chunk("</think>", "", "")),
                              !.thinkingState = FALSE]
              ELSE c1
    IN  [c2 EXCEPT
            !.chunks = Append(@, Chunk("finish", "",
                                       IF c2.toolCallSeen THEN "tool_calls" ELSE "stop")),
            !.toolCallSeen = FALSE,
            !.finished = TRUE]

convFrame == <<status, tokenValid, quota, poolVars, refreshReqs, now, runnerVars,
               hintedUntil, hookVars, pool, run, abortSignal, attemptLogs,
               upstreamCalls, outcome, sync, db, tok, helper, onb, hb, ver, think, body, sched>>

\* convertSSEChunk(antigravityData, requestId, model, includeThinking) on one
\* event of the stream: the candidate holds parts, a signature of its own
\* (candidateSignature, "" = none) and possibly a finishReason. A buffer that
\* was never stored in claudeToolThinkingBuffer is lost when the call returns.
ConvertSSEChunk(parts, candidateSignature, finishReason) ==
    /\ conv.model # ""
    /\ ~conv.finished
    /\ Len(conv.received) + Len(parts) <= MaxParts
    /\ LET c0 == [conv EXCEPT !.received = @ \o parts]
           c1 == IF isClaudeModel(conv.model)
                 THEN flushClaudePendingToolCalls(
                          [c0 EXCEPT !.claudeBuf.signature =
                                         IF candidateSignature # "" /\ @ = ""
                                         THEN candidateSignature ELSE @])
                 ELSE c0
           c2 == convertParts(c1, parts)
           c3 == IF finishReason THEN convertFinish(c2) ELSE c2
       IN  conv' = IF c3.buffered THEN c3
                   ELSE [c3 EXCEPT !.claudeBuf = NoConv.claudeBuf]
    /\ UNCHANGED convFrame

\* a part of the upstream request: text the pieces of its text (of the
\* functionResponse output for a functionResponse), sig its thoughtSignature,
\* data the base64 data of an inlineData part
UpstreamPart(k, text, sig, id, data) ==
    [k |-> k, text |-> text, sig |-> sig, id |-> id, data |-> data]

\* the items of a tool message content
TextItem(text) == [type |-> "text", text |-> text, url |-> ""]

ImageItem(url) == [type |-> "image_url", text |-> "", url |-> url]

\* parseDataUrl(url)?.data: the base64 data of a data-URL, "" for any other url
parseDataUrl(url) ==
    CASE url = "data:image/png;base64,img1" -> "img1"
      [] url = "data:image/png;base64,img2" -> "img2"
      [] OTHER -> ""

\* limitToolOutput: an output below the caps is kept as it is
limitToolOutput(output) == output

\* JSON.stringify of the content: every item ends in the text
splitOpenAIToolResultContent_Stringify(content) ==
    [textParts |-> [i \in DOMAIN content |->
                       IF content[i].type = "text" THEN content[i].text
                       ELSE parseDataUrl(content[i].url)],
     inlineDataParts |-> << >>]

\* splitOpenAIToolResultContent on an array of text and image_url items: the
\* non-empty texts (joined with newlines, here kept as a sequence) and one
\* inlineData part for every image_url that parseDataUrl reads
splitOpenAIToolResultContent(content) ==
    LET isText(item) == item.type = "text" /\ item.text # ""
        isImage(item) == /\ item.type = "image_url"
                         /\ item.url # ""
                         /\ parseDataUrl(item.url) # ""
        texts == SelectSeq(content, isText)
        images == SelectSeq(content, isImage)
    IN  [textParts |-> [i \in DOMAIN texts |-> texts[i].text],
         inlineDataParts |->
             [i \in DOMAIN images |->
                 UpstreamPart("inlineData", << >>, "", "", parseDataUrl(images[i].url))]]

\* a replay that carries the sentinel in place of the cached signature
replayClaudeThought_Sentinel(signature) ==
    IF signature = "" THEN << >>
    ELSE <<UpstreamPart("thought", <<" ">>, "skip_thought_signature_validator", "", "")>>

\* convertMessage, the replayed thought part of an assistant turn with
\* tool_calls: none without a cached signature
replayClaudeThought(signature) ==
    IF signature = "" THEN << >>
    ELSE <<UpstreamPart("thought", <<" ">>, signature, "", "")>>

\* convertMessage(msg, ctx) for the assistant message with tool_calls (and no
\* text): the replayed thought, then one functionCall part per tool call
convertMessage(c, req) ==
    LET thinking == isClaudeModel(req.model) /\ req.enableThinking
        replayClaudeSignature ==
            IF thinking THEN getCachedClaudeToolThinking(c, req.tool_calls[1]) ELSE ""
        thoughtSignature(id) ==
            IF c.toolThoughtSignature[id] # "" THEN c.toolThoughtSignature[id]
            ELSE IF thinking /\ replayClaudeSignature # "" THEN replayClaudeSignature
            ELSE IF isGeminiModel(req.model) THEN "skip_thought_signature_validator"
            ELSE ""
    IN  replayClaudeThought(replayClaudeSignature) \o
        [i \in DOMAIN req.tool_calls |->
            UpstreamPart("functionCall", << >>, thoughtSignature(req.tool_calls[i]),
                         req.tool_calls[i], "")]

Models == {"claude-sonnet-4-6", "gemini-2.5-pro"}

\* the tool_calls of the assistant message of a request; the tool message
\* that follows answers the first of them
ToolCallLists == {<<"toolu_1">>, <<"toolu_1", "toolu_2">>, <<"toolu_2">>, <<"call_1">>}

ToolContents ==
    {<<TextItem("a")>>,
     <<TextItem("a"), ImageItem("data:image/png;base64,img1")>>,
     <<ImageItem("data:image/png;base64,img1"), TextItem("a"), TextItem(""),
       TextItem("b"), ImageItem("data:image/png;base64,img2")>>,
     <<TextItem("a"), ImageItem("https://example.com/x.png")>>}

\* the requests of the model: every model, thinking setting and tool call
\* list with one mixed content, and every content with a Claude request whose
\* tool call id is Claude's or is not
Request(model, enableThinking, tool_calls, content) ==
    [model |-> model, enableThinking |-> enableThinking, tool_calls |-> tool_calls,
     content |-> content]

OpenAIRequests ==
    {Request(model, enableThinking, tool_calls,
             <<TextItem("a"), ImageItem("data:image/png;base64,img1")>>) :
        model \in Models, enableThinking \in BOOLEAN, tool_calls \in ToolCallLists}
    \cup {Request("claude-sonnet-4-6", TRUE, tool_calls, content) :
             tool_calls \in {<<"toolu_1">>, <<"call_1">>}, content \in ToolContents}

\* convertOpenAIToAntigravity(openaiRequest) for messages [user, assistant
\* with tool_calls, tool]: enableThinking is what
\* resolveOpenAIThinkingSettings returned. The signature check fills the cache
\* of the missing Claude ids from the first id that has one and logs a
\* downgrade when none has; the assistant turn is dropped for a Claude model
\* when a tool call id is not Claude's; the tool message becomes a user turn;
\* thinkingConfig follows enableThinking. The request is the next one of the
\* conversation, built after the stream has ended.
ConvertOpenAIToAntigravity(req) ==
    /\ conv.finished
    /\ LET claude == isClaudeModel(req.model)
           ids == SelectSeq(req.tool_calls, looksLikeClaudeToolId)
           found == {i \in DOMAIN ids : getCachedClaudeToolThinking(conv, ids[i]) # ""}
           missing == DOMAIN ids \ found
           checked == req.enableThinking /\ claude
           fallback == IF found = {} THEN ""
                       ELSE getCachedClaudeToolThinking(
                                conv, ids[CHOOSE i \in found : \A j \in found : i <= j])
           c1 == IF checked /\ missing # {} /\ fallback # ""
                 THEN [conv EXCEPT
                          !.claudeToolThinking =
                              [id \in ToolCallIds |->
                                  IF \E i \in missing : ids[i] = id THEN fallback ELSE @[id]]]
                 ELSE conv
           split == splitOpenAIToolResultContent(req.content)
           output == limitToolOutput(split.textParts)
           tool_call_id == req.tool_calls[1]
           toolParts ==
               (IF claude /\ ~looksLikeClaudeToolId(tool_call_id)
                THEN <<UpstreamPart("text", <<"[tool:unknown]">> \o output, "", "", "")>>
                ELSE <<UpstreamPart("functionResponse", output, "", tool_call_id, "")>>)
               \o split.inlineDataParts
           assistantParts ==
               IF claude /\ \E i \in DOMAIN req.tool_calls :
                               ~looksLikeClaudeToolId(req.tool_calls[i])
               THEN << >>
               ELSE convertMessage(c1, req)
       IN  conv' = [c1 EXCEPT !.upstream =
                       [built |-> TRUE,
                        req |-> req,
                        assistant |-> assistantParts,
                        tool |-> toolParts,
                        includeThoughts |-> IF req.enableThinking THEN "true"
                                            ELSE IF claude THEN "false" ELSE "absent",
                        downgradeLogged |-> checked /\ missing # {} /\ fallback = ""]]
    /\ UNCHANGED convFrame

\* a stream of one model, with includeThinking as the route passes it and
\* OPENAI_THINKING_OUTPUT as the environment sets it
ConverterInit ==
    /\ PoolInit
    /\ pool = NoPool
    /\ run = NoRun
    /\ abortSignal = FALSE
    /\ attemptLogs = << >>
    /\ upstreamCalls = << >>
    /\ outcome = NoOutcome
    /\ sched = [k \in Schedulers |-> NoScheduler]
    /\ body = NoBody
    /\ think = NoThinking
    /\ ver = NoVersion
    /\ hb = NoHeartbeat
    /\ onb = NoOnboard
    /\ sync = NoSync
    /\ db = NoDb
    /\ tok = NoTok
    /\ helper = NoHelper
    /\ \E model \in Models, includeThinking \in BOOLEAN,
          output \in {"reasoning_content", "tags", "both"} :
          conv = [NoConv EXCEPT !.model = model, !.includeThinking = includeThinking,
                                !.output = output]

ConverterNext ==
    \/ \E parts \in {<<p>> : p \in StreamParts} \cup (StreamParts \X StreamParts),
          finishReason \in BOOLEAN :
          ConvertSSEChunk(parts, "", finishReason)
    \/ \E p \in StreamParts : ConvertSSEChunk(<<p>>, "sigC", FALSE)
    \/ \E req \in OpenAIRequests : ConvertOpenAIToAntigravity(req)

ConverterSpec == ConverterInit /\ [][ConverterNext]_vars

\* ------------------------------- getNextAccount on a pool other requests use
\* the pool as other requests left it: every account absent or active, its
\* lock free or held by another request, its cooldown unset or set to one of
\* two expiry times
PoolScanInit ==
    /\ PoolInit
    /\ \E st \in [Pool -> {"absent", "active"}],
          locks \in [Pool -> 0..MAX_CONCURRENT_PER_ACCOUNT],
          cds \in [Pool -> {0, PriorCooldownMs, 2 * PriorCooldownMs}] :
            /\ \A a \in Pool : st[a] = "absent" => locks[a] = 0 /\ cds[a] = 0
            /\ pool = [NoPool EXCEPT
                          !.status = st,
                          !.accountLocks = locks,
                          !.capacityCooldowns = [a \in Pool |-> [k \in Keys |-> cds[a]]]]
    /\ run = NoRun
    /\ abortSignal = FALSE
    /\ attemptLogs = << >>
    /\ upstreamCalls = << >>
    /\ outcome = NoOutcome
    /\ sched = [k \in Schedulers |-> NoScheduler]
    /\ body = NoBody
    /\ think = NoThinking
    /\ ver = NoVersion
    /\ hb = NoHeartbeat
    /\ onb = NoOnboard
    /\ conv = NoConv
    /\ helper = NoHelper
    /\ tok = NoTok
    /\ db = NoDb
    /\ sync = NoSync

\* getNextAccount(model, {excludeAccountIds: ex}) of a request
GetNextAccountCall(ex) ==
    /\ run.pc = "idle"
    /\ getAccountAndCall([NoRun EXCEPT !.excludedAccountIds = ex])
    /\ UNCHANGED <<now, abortSignal, poolFrame>>

\* another request releases the lock it holds on account a
OtherRequestUnlock(a) ==
    /\ pool.accountLocks[a] > 0
    /\ run.account # a
    /\ pool' = [pool EXCEPT !.accountLocks = unlockAccount(@, a)]
    /\ UNCHANGED <<now, run, abortSignal, attemptLogs, upstreamCalls, outcome, poolFrame>>

\* the clock advances by half a cooldown
PoolScanClock ==
    /\ now < 2 * PriorCooldownMs
    /\ now' = now + PriorCooldownMs \div 2
    /\ UNCHANGED <<pool, run, abortSignal, attemptLogs, upstreamCalls, outcome, poolFrame>>

PoolScanNext ==
    \/ \E ex \in SUBSET Pool : GetNextAccountCall(ex)
    \/ \E a \in Pool : OtherRequestUnlock(a)
    \/ PoolScanClock

PoolScanSpec == PoolScanInit /\ [][PoolScanNext]_vars

\* --------------------------------------- account status under a request
\* a request on a pool of at most two accounts, none of them in cooldown
StatusInit ==
    /\ RequestInit
    /\ \A a \in Pool :
          /\ a > 2 => pool.status[a] = "absent"
          /\ pool.capacityCooldowns[a][DefaultKey] = 0

\* the admin sets account a to disabled from the accounts page:
\* updateAccountStatus(id, 'disabled') on the row, whatever requests hold it
AdminDisable(a) ==
    /\ pool.status[a] \in {"active", "error"}
    /\ pool' = [pool EXCEPT !.status[a] = "disabled"]
    /\ UNCHANGED <<now, run, abortSignal, attemptLogs, upstreamCalls, outcome, poolFrame>>

StatusNext ==
    \/ FullRetryNext
    \/ \E a \in Pool : AdminDisable(a)

StatusSpec == StatusInit /\ [][StatusNext]_vars

\* ---------------------------------------------- onboardUser (tokenManager.js)
onboardFrame == <<status, tokenValid, quota, poolVars, refreshReqs, now, runnerVars,
                  hintedUntil, hookVars, pool, run, abortSignal, attemptLogs,
                  upstreamCalls, outcome, sync, db, tok, helper, conv, hb, ver, think, body, sched>>

\* the answers of the onboardUser endpoint: a status that is retried on the
\* tier (429, 408, 409, 5xx), another error status, done: false, done: true
\* without a project id, done: true with one, and a request that threw
OnboardResponses ==
    {"retryStatus", "otherStatus", "notDone", "doneNoProject", "doneProject", "threw"}

\* the request of attempt n on tier t is sent
onboardPoll(o, t, n) ==
    [o EXCEPT !.pc = "fetching", !.tier = t, !.attempt = n,
              !.polls = @ + 1,
              !.tierPolls = IF t = o.tier THEN @ + 1 ELSE 1,
              !.noProjectIdRetries = IF t = o.tier THEN @ ELSE 0,
              !.order = Append(@, tiers[t])]

\* break out of the polling loop of tier o.tier: the next tier, or the throw
\* after the last one
onboardNextTier(o) ==
    IF o.tier < Len(tiers)
    THEN onboardPoll(o, o.tier + 1, 1)
    ELSE [o EXCEPT !.pc = "thrown"]

\* a done response without project id is retried twice on a tier
noProjectRetryAllowed_Always(n) == TRUE

noProjectRetryAllowed(n) == n <= 2

\* onboardUser(account) is called: the first poll of the first tier
OnboardUser ==
    /\ onb.pc = "idle"
    /\ onb' = onboardPoll(onb, 1, 1)
    /\ UNCHANGED onboardFrame

\* the request of the running attempt ended with res
OnboardResponse(res) ==
    /\ onb.pc = "fetching"
    /\ onb' =
          CASE res \in {"retryStatus", "notDone", "threw"} ->
                  [onb EXCEPT !.pc = "sleeping"]
            [] res = "otherStatus" -> onboardNextTier(onb)
            [] res = "doneNoProject" ->
                  LET o == [onb EXCEPT !.noProjectIdRetries = @ + 1]
                  IN  IF noProjectRetryAllowed(o.noProjectIdRetries)
                      THEN [o EXCEPT !.pc = "sleeping"]
                      ELSE onboardNextTier(o)
            [] res = "doneProject" ->
                  [onb EXCEPT !.pc = "returned", !.tierId = tiers[onb.tier]]
    /\ UNCHANGED onboardFrame

\* sleep(pollDelayMs) resolved: continue with the next attempt on the tier,
\* or leave the loop after maxAttempts
OnboardSleepDone ==
    /\ onb.pc = "sleeping"
    /\ LET o == [onb EXCEPT !.slept = @ + pollDelayMs]
       IN  onb' = IF onb.attempt + 1 <= maxAttempts
                  THEN onboardPoll(o, onb.tier, onb.attempt + 1)
                  ELSE onboardNextTier(o)
    /\ UNCHANGED onboardFrame

OnboardNext ==
    \/ OnboardUser
    \/ \E res \in OnboardResponses : OnboardResponse(res)
    \/ OnboardSleepDone

OnboardSpec == Init /\ [][OnboardNext]_vars

\* every request is answered or fails (the helper has a timeout) and every
\* sleep resolves
OnboardFairSpec == OnboardSpec /\ WF_vars(OnboardNext)

\* ------------------------------------------------- heartbeat (warmup.js)
heartbeatFrame == <<status, tokenValid, quota, poolVars, refreshReqs, now, runnerVars,
                    hintedUntil, hookVars, pool, run, abortSignal, attemptLogs,
                    upstreamCalls, outcome, sync, db, tok, helper, conv, onb, ver, think, body, sched>>

\* startHeartbeat(account): it returns at once when the map has an entry of
\* the account (no step); else a new entry, whose first timer scheduleNext
\* sets, is put into the map
StartHeartbeat(a, token) ==
    /\ Len(hb.entries[a]) < MaxHeartbeatStarts
    /\ hb.heartbeatTimers[a] = 0
    /\ hb' = [hb EXCEPT
                 !.entries[a] = Append(@, [chain |-> "timer", account |-> token]),
                 !.heartbeatTimers[a] = Len(hb.entries[a]) + 1]
    /\ UNCHANGED heartbeatFrame

\* stopHeartbeat(accountId): clearTimeout(entry.timerId), which cancels a
\* pending timer and does nothing to one that has fired, and the entry leaves
\* the map
StopHeartbeat(a) ==
    /\ hb.heartbeatTimers[a] # 0
    /\ LET i == hb.heartbeatTimers[a]
       IN  hb' = [hb EXCEPT
                     !.entries[a][i].chain = IF @ = "timer" THEN "cleared" ELSE @,
                     !.heartbeatTimers[a] = 0]
    /\ UNCHANGED heartbeatFrame

\* updateHeartbeatAccount(account): the entry in the map gets the new object
UpdateHeartbeatAccount(a, token) ==
    /\ hb.heartbeatTimers[a] # 0
    /\ hb.entries[a][hb.heartbeatTimers[a]].account # token
    /\ hb' = [hb EXCEPT !.entries[a][hb.heartbeatTimers[a]].account = token]
    /\ UNCHANGED heartbeatFrame

\* the timer of entry i fires and tick() awaits callEndpoint (for an idle
\* account tick() returns at once and scheduleNext sets the next timer: no
\* step)
HeartbeatTimer(a, i) ==
    /\ i \in 1..Len(hb.entries[a])
    /\ hb.entries[a][i].chain = "timer"
    /\ hb' = [hb EXCEPT !.entries[a][i].chain = "ticking"]
    /\ UNCHANGED heartbeatFrame

\* callEndpoint of the tick of entry i settled: finally(scheduleNext) sets the
\* next timer of the entry, whether or not the map still holds it
HeartbeatTickDone(a, i) ==
    /\ i \in 1..Len(hb.entries[a])
    /\ hb.entries[a][i].chain = "ticking"
    /\ hb' = [hb EXCEPT !.entries[a][i].chain = "timer"]
    /\ UNCHANGED heartbeatFrame

HeartbeatNext ==
    \/ \E a \in HbAccounts, token \in HbTokens : StartHeartbeat(a, token)
    \/ \E a \in HbAccounts : StopHeartbeat(a)
    \/ \E a \in HbAccounts, token \in HbTokens : UpdateHeartbeatAccount(a, token)
    \/ \E a \in HbAccounts, i \in 1..MaxHeartbeatStarts : HeartbeatTimer(a, i)
    \/ \E a \in HbAccounts, i \in 1..MaxHeartbeatStarts : HeartbeatTickDone(a, i)

HeartbeatSpec == Init /\ [][HeartbeatNext]_vars

\* ----------------------------------------- refreshVersion (version-fetcher.js)
versionFrame == <<status, tokenValid, quota, poolVars, refreshReqs, now, runnerVars,
                  hintedUntil, hookVars, pool, run, abortSignal, attemptLogs,
                  upstreamCalls, outcome, sync, db, tok, helper, conv, onb, hb, think, body, sched>>

\* the debounce test of refreshVersion
reusesRefresh(v) == v.refreshPromise # 0 /\ v.clock - v.lastRefreshTime < DEBOUNCE_MS

\* refreshVersion() up to its await: the pending promise is returned inside
\* the window, else checkAndUpdate is started and awaited
RefreshVersion ==
    /\ Len(ver.fetches) < MaxFetches \/ reusesRefresh(ver)
    /\ ver' =
          IF reusesRefresh(ver)
          THEN [ver EXCEPT !.lastCall = [at |-> ver.clock, fetch |-> ver.refreshPromise]]
          ELSE [ver EXCEPT
                   !.lastRefreshTime = ver.clock,
                   !.refreshPromise = Len(ver.fetches) + 1,
                   !.fetches = Append(@, [start |-> ver.clock, pending |-> TRUE]),
                   !.lastCall = [at |-> ver.clock, fetch |-> Len(ver.fetches) + 1]]
    /\ UNCHANGED versionFrame

\* checkAndUpdate of fetch i settled: the call that started it leaves its
\* await and its finally block sets _refreshPromise to null
VersionFetchDone(i) ==
    /\ i \in 1..Len(ver.fetches)
    /\ ver.fetches[i].pending
    /\ ver' = [ver EXCEPT !.fetches[i].pending = FALSE, !.refreshPromise = 0]
    /\ UNCHANGED versionFrame

\* ten seconds pass
VersionClock ==
    /\ ver.clock < MaxVersionClock * 10 * MsPerSecond
    /\ ver' = [ver EXCEPT !.clock = @ + 10 * MsPerSecond]
    /\ UNCHANGED versionFrame

VersionNext ==
    \/ RefreshVersion
    \/ \E i \in 1..MaxFetches : VersionFetchDone(i)
    \/ VersionClock

VersionSpec == Init /\ [][VersionNext]_vars

\* ------------------------- resolveOpenAIThinkingSettings (openai-converter.js)
thinkingFrame == <<status, tokenValid, quota, poolVars, refreshReqs, now, runnerVars,
                   hintedUntil, hookVars, pool, run, abortSignal, attemptLogs,
                   upstreamCalls, outcome, sync, db, tok, helper, conv, onb, hb, ver, body, sched>>

\* DEFAULT_THINKING_BUDGET
DEFAULT_THINKING_BUDGET == 4096

\* THINKING_MODELS (config.js)
THINKING_MODELS ==
    {"gemini-2.5-pro", "gemini-2.5-flash-thinking", "gemini-3-flash-thinking",
     "gemini-3.1-pro-high", "gemini-3.1-pro-low", "gemini-3-pro-image",
     "claude-opus-4-6-thinking", "claude-sonnet-4-6-thinking"}

\* the model names of the requests; the last one is in no list and ends with
\* "-thinking"
ThinkingRequestModels ==
    {"gemini-2.5-pro", "gemini-2.5-flash", "claude-sonnet-4-6", "custom-thinking"}

\* m.endsWith('-thinking') on the names above
endsWithThinking(m) ==
    m \in {"gemini-2.5-flash-thinking", "gemini-3-flash-thinking",
           "claude-opus-4-6-thinking", "claude-sonnet-4-6-thinking", "custom-thinking"}

\* isThinkingModel (config.js)
isThinkingModel(m) == m \in THINKING_MODELS \/ endsWithThinking(m)

\* a field the request does not have
Undefined == [kind |-> "undefined", s |-> "", n |-> 0]

\* a string and a number as field values
Str(s) == [kind |-> "string", s |-> s, n |-> 0]
Num(n) == [kind |-> "number", s |-> "", n |-> n]

\* String(v).trim().toLowerCase() on the strings of the requests
trimLower(s) ==
    CASE s = " Enabled " -> "enabled"
      [] s = "HIGH" -> "high"
      [] s = "  " -> ""
      [] OTHER -> s

\* normalizeThinkingType: "" stands for null
normalizeThinkingType(rawType) ==
    IF rawType.kind = "undefined" THEN ""
    ELSE LET value == trimLower(rawType.s)
         IN  IF value \in {"enabled", "disabled", "adaptive"} THEN value ELSE ""

\* THINKING_EFFORT_BUDGET_MAP
THINKING_EFFORT_BUDGET_MAP ==
    [minimal |-> 1024, low |-> 2048, medium |-> 4096, high |-> 8192, max |-> 16384]

\* normalizeThinkingEffort: "" stands for null
normalizeThinkingEffort(rawEffort) ==
    IF rawEffort.kind = "undefined" THEN ""
    ELSE LET value == trimLower(rawEffort.s)
         IN  IF value \in DOMAIN THINKING_EFFORT_BUDGET_MAP THEN value ELSE ""

\* a ?? b
nullish(a, b) == IF a.kind = "undefined" THEN b ELSE a

\* Number.isFinite(Number(v)) && Number(v) > 0: a string here is not numeric
isPositiveFinite(v) == v.kind = "number" /\ v.n > 0

\* the enableThinking of resolveOpenAIThinkingSettings, without the override
\* of thinking.type 'disabled'
enableThinkingOf_NoDisable(normalizedType, model, hasExplicitBudget, normalizedEffort) ==
    \/ normalizedType \in {"enabled", "adaptive"}
    \/ isThinkingModel(model)
    \/ hasExplicitBudget
    \/ normalizedEffort # ""

\* the enableThinking of resolveOpenAIThinkingSettings
enableThinkingOf(normalizedType, model, hasExplicitBudget, normalizedEffort) ==
    \/ normalizedType = "enabled"
    \/ normalizedType = "adaptive"
    \/ /\ normalizedType # "disabled"
       /\ \/ isThinkingModel(model)
          \/ hasExplicitBudget
          \/ normalizedEffort # ""

\* the fields of thinking, which count when thinking is an object
thinkingField(req, f) == IF req.thinkingIsObject THEN req.thinking[f] ELSE Undefined

\* resolveOpenAIThinkingSettings(openaiRequest, model)
resolveOpenAIThinkingSettings(req) ==
    LET normalizedType == normalizeThinkingType(thinkingField(req, "type"))
        normalizedEffort ==
            normalizeThinkingEffort(nullish(thinkingField(req, "effort"), req.thinking_effort))
        parsedBudget ==
            nullish(req.thinking_budget,
                    nullish(req.budget_tokens,
                            nullish(thinkingField(req, "budget_tokens"),
                                    thinkingField(req, "budgetTokens"))))
        hasExplicitBudget == isPositiveFinite(parsedBudget)
        effortBudget == IF normalizedEffort # ""
                        THEN THINKING_EFFORT_BUDGET_MAP[normalizedEffort] ELSE 0
    IN  [enableThinking |->
             enableThinkingOf(normalizedType, req.model, hasExplicitBudget, normalizedEffort),
         rawBudget |-> IF hasExplicitBudget THEN parsedBudget.n
                       ELSE IF effortBudget # 0 THEN effortBudget
                       ELSE DEFAULT_THINKING_BUDGET]

\* the thinking objects of the requests
ThinkingObjects ==
    {[type |-> t, effort |-> ef, budget_tokens |-> b, budgetTokens |-> Undefined] :
        t \in {Undefined, Str("enabled"), Str("disabled"), Str("adaptive"),
               Str(" Enabled "), Str("auto")},
        ef \in {Undefined, Str("low"), Str("ultra")},
        b \in {Undefined, Num(1500)}}
    \cup {[type |-> Undefined, effort |-> Undefined, budget_tokens |-> Undefined,
           budgetTokens |-> Num(700)]}

\* the OpenAI requests resolveOpenAIThinkingSettings is called with
ThinkingRequests ==
    {[model |-> m, thinkingIsObject |-> o, thinking |-> th, thinking_effort |-> ef,
      thinking_budget |-> b, budget_tokens |-> Undefined] :
        m \in ThinkingRequestModels, o \in BOOLEAN, th \in ThinkingObjects,
        ef \in {Undefined, Str("HIGH"), Str("  ")},
        b \in {Undefined, Num(0), Num(2000), Str("many")}}
    \cup {[model |-> m, thinkingIsObject |-> FALSE,
           thinking |-> [type |-> Str("enabled"), effort |-> Undefined,
                         budget_tokens |-> Undefined, budgetTokens |-> Undefined],
           thinking_effort |-> Undefined, thinking_budget |-> Undefined,
           budget_tokens |-> b] :
        m \in ThinkingRequestModels, b \in {Num(3000), Num(-1)}}

\* convertOpenAIToAntigravity calls resolveOpenAIThinkingSettings(req, model)
ResolveOpenAIThinkingSettings(req) ==
    /\ ~think.called
    /\ LET settings == resolveOpenAIThinkingSettings(req)
       IN  think' = [called |-> TRUE, req |-> req,
                     enableThinking |-> settings.enableThinking,
                     rawBudget |-> settings.rawBudget]
    /\ UNCHANGED thinkingFrame

ThinkingNext == \E req \in ThinkingRequests : ResolveOpenAIThinkingSettings(req)

ThinkingSpec == Init /\ [][ThinkingNext]_vars

\* ------------------------------- the body of streamBinaryFetch's response
bodyFrame == <<status, tokenValid, quota, poolVars, refreshReqs, now, runnerVars,
               hintedUntil, hookVars, pool, run, abortSignal, attemptLogs,
               upstreamCalls, outcome, sync, db, tok, conv, onb, hb, ver, think, sched>>

\* controller.enqueue(chunk) on a stream in state s
enqueue(b, s) ==
    IF s = "open" THEN [b EXCEPT !.enqueued = @ + 1] ELSE [b EXCEPT !.late = @ + 1]

\* proc.stdout.on('data') after the headers: the chunk is enqueued.  A killed
\* process ends asynchronously, and what it wrote before is still delivered
\* until the close event
HelperStdoutBody ==
    /\ helper.kind = "stream"
    /\ helper.attached
    /\ helper.proc \in {"running", "killed"}
    /\ helper.headersParsed
    /\ body.enqueued + body.late < MaxChunks
    /\ body' = enqueue(body, helper.stream)
    /\ UNCHANGED <<helper, bodyFrame>>

\* proc.stdout.on('data') with the end of the headers, delivered after the
\* process was killed: resolve() has no effect on the rejected promise, and a
\* non-empty bodyPart is enqueued
HelperStdoutHeadAfterKill(bodyPart) ==
    /\ helper.kind = "stream"
    /\ helper.attached
    /\ helper.proc = "killed"
    /\ ~helper.headersParsed
    /\ body.enqueued + body.late < MaxChunks
    /\ helper' = [helper EXCEPT
                     !.headersParsed = TRUE,
                     !.timer = FALSE,
                     !.settled = IF @ = "pending" THEN "resolved" ELSE @]
    /\ body' = IF bodyPart THEN enqueue(body, helper.stream) ELSE body
    /\ UNCHANGED bodyFrame

\* the consumer cancels the reader of the response body: the stream is
\* cancelled and its cancel() callback kills the process
ConsumerCancel ==
    /\ helper.kind = "stream"
    /\ helper.settled = "resolved"
    /\ helper.stream = "open"
    /\ helper' = [helper EXCEPT
                     !.stream = "cancelled",
                     !.proc = IF @ = "running" THEN "killed" ELSE @,
                     !.exit = IF helper.proc = "running" THEN "cancel" ELSE @]
    /\ UNCHANGED <<body, bodyFrame>>

StreamBodyNext ==
    \/ HelperNext
    \/ HelperStdoutBody
    \/ \E bodyPart \in BOOLEAN : HelperStdoutHeadAfterKill(bodyPart)
    \/ ConsumerCancel

StreamBodySpec == Init /\ [][StreamBodyNext]_vars

\* ------------------------------- fetchDetailedQuotaInfo (tokenManager.js)
\* the loop of fetchDetailedQuotaInfo over Object.entries(models), from its
\* n-th entry on, with the accumulator of scanEntries
RECURSIVE scanDetailedEntries(_, _, _, _, _)
scanDetailedEntries(entries, n, models, hasAnyRelevantModel, acc) ==
    IF n > Len(entries) THEN acc
    ELSE LET i == entries[n]
             modelInfo == models[i]
             isRelevant == CatalogModels[i] \in QUOTA_RELEVANT_MODELS
             isImageModel == isImageGenerationModel(CatalogModels[i])
             shouldAffectOverall == (~hasAnyRelevantModel \/ isRelevant) /\ ~isImageModel
             remainingFraction == toQuotaFraction(modelInfo.remainingFraction, 0)
             resetTimestamp == resetTimeOf(i)
         IN  IF modelInfo.kind = "null"
             THEN scanDetailedEntries(entries, n + 1, models, hasAnyRelevantModel, acc)
             ELSE IF modelInfo.kind = "noQuotaInfo"
             THEN scanDetailedEntries(entries, n + 1, models, hasAnyRelevantModel,
                     IF isRelevant
                     THEN [acc EXCEPT
                             !.sawQuotaSignal = TRUE,
                             !.rows[i] = <<0, 0>>,
                             !.minQuota = IF shouldAffectOverall THEN 0 ELSE @,
                             !.minQuotaResetTime = IF shouldAffectOverall THEN 0 ELSE @]
                     ELSE acc)
             ELSE scanDetailedEntries(entries, n + 1, models, hasAnyRelevantModel,
                     [acc EXCEPT
                        !.sawQuotaSignal = TRUE,
                        !.rows[i] = IF isRelevant THEN <<remainingFraction, resetTimestamp>>
                                    ELSE @,
                        !.minQuota = IF shouldAffectOverall /\ remainingFraction < @
                                     THEN remainingFraction ELSE @,
                        !.minQuotaResetTime =
                            IF shouldAffectOverall /\ remainingFraction < acc.minQuota
                            THEN resetTimestamp ELSE @])

\* fetchDetailedQuotaInfo(account) with an ok response: what it stores, and
\* overallQuota and resetTime of what it returns
fetchDetailedQuotaInfo(s) ==
    LET entries == entriesOf(s.order, s.models, FALSE)
        hasAnyRelevantModel == Len(entriesOf(s.order, s.models, TRUE)) > 0
        scanned == scanDetailedEntries(entries, 1, s.models, hasAnyRelevantModel,
                                       [minQuota |-> QuotaUnit, minQuotaResetTime |-> 0,
                                        sawQuotaSignal |-> FALSE, rows |-> s.rows])
        minQuota == IF scanned.sawQuotaSignal THEN scanned.minQuota ELSE 0
        minQuotaResetTime == IF scanned.sawQuotaSignal THEN scanned.minQuotaResetTime ELSE 0
    IN  [s EXCEPT !.phase = "detailed",
                  !.rows = scanned.rows,
                  !.quota_remaining = minQuota,
                  !.quota_reset_time = minQuotaResetTime,
                  !.returned = <<minQuota, minQuotaResetTime>>]

\* the catalog request of fetchDetailedQuotaInfo was answered with an ok
\* response
FetchDetailedQuotaInfo ==
    /\ sync.phase = "idle"
    /\ sync' = fetchDetailedQuotaInfo(sync)
    /\ UNCHANGED syncFrame

QuotaDetailNext ==
    \/ QuotaSyncNext
    \/ FetchDetailedQuotaInfo

QuotaDetailSpec == QuotaSyncInit /\ [][QuotaDetailNext]_vars

\* ------------------- startUnleashScheduler / startTelemetryScheduler
schedFrame == <<status, tokenValid, quota, poolVars, refreshReqs, now, runnerVars,
                hintedUntil, hookVars, pool, run, abortSignal, attemptLogs,
                upstreamCalls, outcome, sync, db, tok, helper, conv, onb, hb, ver,
                think, body>>

\* run() begins
runBegins(s) == [s EXCEPT !.begun = @ + 1, !.lateRun = @ \/ s.stopped]

\* start*Scheduler(getActiveAccounts): it returns at once when _intervalId is
\* set (no step); else it sets the timeout of the first run
StartScheduler(k) ==
    /\ sched[k].intervalId = 0
    /\ sched[k].started < MaxSchedulerStarts
    /\ sched' = [sched EXCEPT ![k].initial = @ + 1, ![k].started = @ + 1,
                              ![k].stopped = FALSE]
    /\ UNCHANGED schedFrame

\* stop*Scheduler(): clearInterval(_intervalId) when it is set
StopScheduler(k) ==
    /\ sched[k].started > 0
    /\ ~sched[k].stopped \/ sched[k].intervalId # 0
    /\ sched' = [sched EXCEPT ![k].intervals = @ \ {sched[k].intervalId},
                              ![k].intervalId = 0,
                              ![k].stopped = TRUE]
    /\ UNCHANGED schedFrame

\* the timeout of the first run fires: run() and _intervalId = setInterval(...)
SchedulerFirstRun(k) ==
    /\ sched[k].initial > 0
    /\ sched[k].begun < MaxSchedulerRuns
    /\ LET id == sched[k].started - sched[k].initial + 1
       IN  sched' = [sched EXCEPT
                        ![k] = [runBegins(@) EXCEPT !.initial = @ - 1,
                                                    !.intervals = @ \cup {id},
                                                    !.intervalId = id]]
    /\ UNCHANGED schedFrame

\* a live interval fires: setTimeout(run, jitter)
SchedulerInterval(k) ==
    /\ sched[k].intervals # {}
    /\ sched[k].jitter = 0
    /\ sched' = [sched EXCEPT ![k].jitter = 1]
    /\ UNCHANGED schedFrame

\* the jitter timeout fires: run()
SchedulerJitterRun(k) ==
    /\ sched[k].jitter > 0
    /\ sched[k].begun < MaxSchedulerRuns
    /\ sched' = [sched EXCEPT ![k] = [runBegins(@) EXCEPT !.jitter = @ - 1]]
    /\ UNCHANGED schedFrame

SchedulerNext ==
    \E k \in Schedulers :
        \/ StartScheduler(k)
        \/ StopScheduler(k)
        \/ SchedulerFirstRun(k)
        \/ SchedulerInterval(k)
        \/ SchedulerJitterRun(k)

SchedulerSpec == Init /\ [][SchedulerNext]_vars

\* ------------------------------------------------------------------ claims
\* upstream calls in flight on account a
inFlight(a) == Cardinality({r \in Requests : pc[r] = "calling" /\ acct[r] = a})

\* the step is a return of getNextAccount to request r
getNextAccountReturns(r) ==
    /\ pc'[r] = "calling"
    /\ \/ pc[r] \in {"idle", "awaitToken"}
       \/ pc[r] = "sleeping" /\ currentAccount[r] = 0

\* the step is the start of a getNextAccount call of request r for key k
getNextAccountStarts(r, k) ==
    \/ Start(r, k)
    \/ Wake(r) /\ currentAccount[r] = 0 /\ rkey[r] = k

\* the exclude list a getNextAccount call of r starts with
excludeIds(r) == IF pc[r] = "idle" THEN {} ELSE excluded[r]

\* the account the getNextAccount call of r has returned or is refreshing
goingFor(r) ==
    IF pc[r] = "calling" THEN acct[r]
    ELSE IF pc[r] = "awaitToken" THEN scan[r].ordered[scan[r].idx]
    ELSE 0

\* the candidates a call of r for k would not skip
eligible(r, k) ==
    {b \in thresholdCandidates(k) :
        b \notin excludeIds(r) /\ ~lockFull(b) /\ ~isAccountInCooldown(b, k)}

\* C1: with a positive limit and local limits on, no account ever has more
\* than MAX_CONCURRENT_PER_ACCOUNT upstream calls in flight.
C1_ConcurrencyBound ==
    limitsOn => \A a \in Accounts : inFlight(a) <= MAX_CONCURRENT_PER_ACCOUNT

\* a call in flight on an account that a second call has also been given
C1_Race ==
    \E a \in Accounts : inFlight(a) > MAX_CONCURRENT_PER_ACCOUNT

\* C2: for every account at most one refresh request to the token endpoint is
\* in flight at any instant.
C2_SingleRefresh ==
    \A a \in Accounts : refreshReqs[a] <= 1

\* C3: an account returned by getNextAccount is, when it is returned, active,
\* above the threshold, out of cooldown, and was below the lock limit.
C3_ReturnedDispatchable ==
    [][\A r \in Requests :
          getNextAccountReturns(r) =>
              LET a == acct'[r]
                  k == rkey'[r]
              IN  /\ status'[a] = "active"
                  /\ quota'[a][k] > GroupQuotaThreshold
                  /\ ~(capacityCooldowns'[a][k] # 0 /\ now' < capacityCooldowns'[a][k])
                  /\ (limitsOn => accountLocks[a] < MAX_CONCURRENT_PER_ACCOUNT)]_vars

\* C4: after a capacity error with "reset after Ns" was recorded for (a, k) at
\* time t, getNextAccount returns a for k at no time before t + (N+1) s.
C4_CooldownRespectsReset ==
    [][\A r \in Requests :
          getNextAccountReturns(r) => now >= hintedUntil[acct'[r]][rkey'[r]]]_vars

\* C5 as claimed: a call for k goes for the sticky account A of k whenever A
\* is active, above the threshold and not in cooldown for k.
C5_StickyReuse ==
    [][\A r \in Requests, k \in Keys :
          LET A == preferred[k]
          IN  (/\ getNextAccountStarts(r, k)
               /\ A # 0
               /\ A \in thresholdCandidates(k)
               /\ ~isAccountInCooldown(A, k))
              => goingFor(r)' = A]_vars

\* C5 as amended: a call for k goes for the sticky account A of k whenever A
\* is active, above the threshold, not in cooldown for k, not in the exclude
\* list of the call and below its concurrency limit; and it returns A when
\* the token refresh it awaits for A succeeds.
C5_StickyReuseAmended ==
    [][\A r \in Requests, k \in Keys :
          LET A == preferred[k]
          IN  /\ (/\ getNextAccountStarts(r, k)
                  /\ A # 0
                  /\ A \in eligible(r, k))
                 => goingFor(r)' = A
              /\ (EnsureTokenRefreshed(r) /\ rkey[r] = k)
                 => (pc'[r] = "calling" /\ acct'[r] = goingFor(r))]_vars

\* a call went for its sticky account and awaits the token refresh of it
C5_Witness ==
    \E r \in Requests :
        /\ pc[r] = "awaitToken"
        /\ goingFor(r) = scan[r].preferredId
        /\ goingFor(r) \in eligible(r, rkey[r])

errorHook(a, k, e) ==
    /\ lastOp' = [kind |-> e.kind, a |-> a, hint |-> e.hint]
    /\ \/ ChatCapacityError(a, k, e)
       \/ ChatFullError(a, k, e)
       \/ StreamCapacityError(a, k, e, FALSE)
       \/ StreamFullError(a, k, e, FALSE)

\* the step is the success hook of one of the four runners for a call on (a, k)
successHook(a, k) ==
    /\ lastOp' = [kind |-> "success", a |-> a, hint |-> << >>]
    /\ \/ ChatCapacityReturn(a, k)
       \/ ChatFullSuccess(a, k)
       \/ StreamCapacitySuccess(a, k)
       \/ StreamFullSuccess(a, k)

\* the pair (a, k) is treated as in cooldown in the state after the step
inCooldownAfter(a, k) ==
    ~DISABLE_LOCAL_LIMITS /\ capacityCooldowns'[a][k] # 0 /\ now' < capacityCooldowns'[a][k]

\* C7: a capacity error without a hint sets the cooldown of (a, k) to
\* min(CAPACITY_COOLDOWN_MAX_MS, CAPACITY_COOLDOWN_DEFAULT_MS * 2^(n-1)) from
\* now, n the capacity errors recorded for (a, k) since its last success, this
\* one included; one with the hint "reset after Ns" sets it to (N+1) * 1000 ms.
C7_CooldownLength ==
    [][\A a \in Accounts, k \in Keys, e \in Errors :
          (e.kind = "capacity" /\ errorHook(a, k, e))
          => capacityCooldowns'[a][k] =
                now + (IF e.hint # << >>
                       THEN (e.hint[1] + 1) * 1000
                       ELSE Min(CAPACITY_COOLDOWN_MAX_MS,
                                CAPACITY_COOLDOWN_DEFAULT_MS
                                   * Pow2(recordedSince'[a][k] - 1)))]_vars

\* the fifth capacity error in a row, without a hint, was just recorded and
\* the cooldown is the ceiling
C7_Witness ==
    /\ lastOp.kind = "capacity"
    /\ lastOp.hint = << >>
    /\ \E k \in Keys :
          /\ recordedSince[lastOp.a][k] = MaxConsecutiveErrors
          /\ capacityCooldowns[lastOp.a][k] = now + CAPACITY_COOLDOWN_MAX_MS

\* C8: the hook of every runner leaves the cooldown map and the capacity-error
\* counters as they are when the error is server-capacity-exhausted.
C8_ServerCapacityFrame ==
    [][\A a \in Accounts, k \in Keys, e \in Errors :
          (e.kind = "serverCapacity" /\ errorHook(a, k, e))
          => UNCHANGED <<capacityCooldowns, capacityErrorCounts>>]_vars

\* a server-capacity-exhausted error was just handled for an account that has
\* a recorded capacity error and an unexpired cooldown
C8_Witness ==
    /\ lastOp.kind = "serverCapacity"
    /\ \E k \in Keys :
          /\ capacityErrorCounts[lastOp.a][k] > 0
          /\ isAccountInCooldown(lastOp.a, k)

\* C9 as claimed: after the success hook of a call on (a, k) the counter of
\* (a, k) is zero and a is not treated as in cooldown for k.
C9_SuccessIdle ==
    [][\A a \in Accounts, k \in Keys :
          successHook(a, k)
          => (capacityErrorCounts'[a][k] = 0 /\ ~inCooldownAfter(a, k))]_vars

\* C9 as amended: after the success hook of a call on (a, k) the counter of
\* (a, k) is zero, and the cooldown entries are what they were: a pair in an
\* unexpired cooldown stays in it.
C9_SuccessResetsCounter ==
    [][\A a \in Accounts, k \in Keys :
          successHook(a, k)
          => (capacityErrorCounts'[a][k] = 0 /\ UNCHANGED capacityCooldowns)]_vars

\* a call just succeeded on an account that is still in cooldown
C9_Witness ==
    /\ lastOp.kind = "success"
    /\ \E k \in Keys :
          /\ capacityErrorCounts[lastOp.a][k] = 0
          /\ isAccountInCooldown(lastOp.a, k)

\* C10 as claimed: markAccountError sets the account to error exactly when the
\* errors since its last markAccountSuccess reach errorCountToDisable, and
\* leaves the status alone otherwise; markAccountSuccess zeroes the count;
\* the stored count stays within 0 .. errorCountToDisable - 1.
C10_ErrorThreshold ==
    [][/\ \A a \in Accounts :
             MarkAccountError(a)
             => IF errorsSinceSuccess'[a] = errorCountToDisable
                THEN status'[a] = "error"
                ELSE status'[a] = status[a]
       /\ \A a \in Accounts, k \in Keys :
             (ChatFullSuccess(a, k) \/ StreamFullSuccess(a, k)) => errorCounts'[a] = 0
       /\ \A a \in Accounts : errorCounts'[a] \in 0..(errorCountToDisable - 1)]_vars

\* C10 as amended: markAccountError sets the account to error on every
\* errorCountToDisable-th error since its last markAccountSuccess, and leaves
\* the status alone otherwise; the stored count is the number of errors since
\* the last markAccountSuccess modulo errorCountToDisable.
C10_ErrorThresholdAmended ==
    [][/\ \A a \in Accounts :
             MarkAccountError(a)
             => /\ IF errorsSinceSuccess'[a] % errorCountToDisable = 0
                   THEN status'[a] = "error"
                   ELSE status'[a] = status[a]
                /\ errorCounts'[a] = errorsSinceSuccess'[a] % errorCountToDisable
       /\ \A a \in Accounts, k \in Keys :
             (ChatFullSuccess(a, k) \/ StreamFullSuccess(a, k)) => errorCounts'[a] = 0
       /\ \A a \in Accounts : errorCounts'[a] \in 0..(errorCountToDisable - 1)]_vars

\* markAccountError just disabled an account for the second time since its
\* last markAccountSuccess
C10_Witness ==
    /\ lastOp.kind = "accountError"
    /\ status[lastOp.a] = "error"
    /\ errorsSinceSuccess[lastOp.a] = 2 * errorCountToDisable
    /\ errorCounts[lastOp.a] = 0

\* C11: the streaming capacity-retry runner makes at most
\* effectiveMaxRetries + 2 upstream calls for a request, which is at most
\* maxRetries + 2, and it has returned or thrown once that many calls ended.
C11_AttemptBound ==
    run.runner = "streamCapacity"
    => /\ run.effectiveMaxRetries <= maxRetries
       /\ Len(upstreamCalls) <= run.effectiveMaxRetries + 2
       /\ Len(upstreamCalls) <= maxRetries + 2
       /\ (/\ Len(upstreamCalls) = run.effectiveMaxRetries + 2
           /\ upstreamCalls[Len(upstreamCalls)].result # "pending")
          => run.pc = "done"

\* the runner threw after maxRetries + 2 upstream calls
C11_Witness ==
    /\ run.runner = "streamCapacity"
    /\ run.pc = "done"
    /\ outcome.kind = "thrown"
    /\ Len(upstreamCalls) = maxRetries + 2

\* C12: an upstream call of a capacity-retry request runs on the account of
\* the call before it when that call failed server-capacity-exhausted, and on
\* an account no earlier call of the request ran on otherwise.
C12_FreshAccount ==
    run.runner = "streamCapacity"
    => \A i \in 2..Len(upstreamCalls) :
          IF upstreamCalls[i - 1].result = "serverCapacity"
          THEN upstreamCalls[i].account = upstreamCalls[i - 1].account
          ELSE \A j \in 1..(i - 1) : upstreamCalls[j].account # upstreamCalls[i].account

\* a request reused its account after a server-capacity-exhausted error and
\* switched to a new one after the capacity error that followed
C12_Witness ==
    /\ run.runner = "streamCapacity"
    /\ Len(upstreamCalls) >= 3
    /\ upstreamCalls[1].result = "serverCapacity"
    /\ upstreamCalls[2].account = upstreamCalls[1].account
    /\ upstreamCalls[2].result = "capacity"
    /\ upstreamCalls[3].account # upstreamCalls[2].account

\* C15: when the last upstream call of a request failed with a capacity error
\* carrying "reset after Ns" and the runner throws, the error it throws is a
\* 429 with a retry hint of (N+1) * 1000 ms.
C15_RetryHint ==
    (/\ run.runner = "streamCapacity"
     /\ outcome.kind = "thrown"
     /\ upstreamCalls # << >>
     /\ upstreamCalls[Len(upstreamCalls)].result = "capacity"
     /\ upstreamCalls[Len(upstreamCalls)].hint = <<ResetSeconds>>)
    => /\ outcome.error.status = 429
       /\ outcome.retryAfterMs = <<(ResetSeconds + 1) * MsPerSecond>>

\* C16: once the abort signal of a request has fired, no further upstream call
\* is started for it.
C16_NoAttemptAfterAbort ==
    [][abortSignal => Len(upstreamCalls') = Len(upstreamCalls)]_vars

\* C18: when the runner has returned or thrown, the attempt log holds one row
\* for every upstream call of the request, its last row has status success
\* exactly when the request succeeded, and status aborted exactly when the
\* client aborted.
C18_LogComplete ==
    (run.runner = "streamCapacity" /\ run.pc = "done")
    => /\ Len(attemptLogs) = Len(upstreamCalls)
       /\ LET last == IF attemptLogs = << >> THEN "none"
                      ELSE attemptLogs[Len(attemptLogs)].status
          IN  /\ (last = "success") <=> (outcome.kind = "returned")
              /\ (last = "aborted") <=> abortSignal

\* the requests whose call in flight on account a runs under a lock that
\* getNextAccount took for it (a reused currentAccount was unlocked before)
lockHolders(a) ==
    Cardinality({q \in Requests : pc[q] = "calling" /\ acct[q] = a /\ currentAccount[q] = 0})

\* C17: when a streamed request on account a ends because the client
\* disconnected, the lock of the request is released and nothing else: if the
\* lock count of a was the number of locks held on a before, it is the number
\* of locks the other requests hold on a afterwards.
C17_AbortReleasesLock ==
    [][\A r \in Requests, a \in Accounts :
          (/\ limitsOn
           /\ pc[r] = "calling"
           /\ acct[r] = a
           /\ accountLocks[a] = lockHolders(a)
           /\ \E e \in Errors : StreamError(r, e, TRUE, TRUE))
          => accountLocks'[a] = lockHolders(a)']_vars

\* the last upstream call of the request
lastCall == upstreamCalls[Len(upstreamCalls)]

\* the step in which the pending call of a full-retry runner fails with an
\* authentication error
authFailureStep ==
    /\ run.runner \in {"chatFull", "streamFull"}
    /\ run.pc = "calling"
    /\ Len(upstreamCalls') = Len(upstreamCalls)
    /\ lastCall.result = "pending"
    /\ lastCall'.result \in {"auth", "refreshTokenInvalid"}

C14_SwitchOnInvalidRefresh ==
    (/\ run.runner \in {"chatFull", "streamFull"}
     /\ run.pc = "done"
     /\ outcome.kind = "thrown"
     /\ (outcome.error.kind = "refreshTokenInvalid" \/ run.refreshFailed)
     /\ pool.status[outcome.account] = "error")
        => poolSurvivors(run.excludedAccountIds) = {}

\* the kinds of error isNonRetryableError accepts, the authentication errors
\* that executeRequest re-executes after a token refresh set aside
nonRetryableKinds ==
    {e.kind : e \in {x \in CallErrors : isNonRetryableError(x) /\ ~isAuthenticationError(x)}}

\* C19: in the full-retry runners no upstream call follows a call that failed
\* with a non-retryable error, on the same account or on another.
C19_NonRetryableFinal ==
    run.runner \in {"chatFull", "streamFull"} =>
        \A i \in 1..(Len(upstreamCalls) - 1) :
            upstreamCalls[i].result \notin nonRetryableKinds

\* the models of the catalog that are relevant and no image model
overallModels ==
    {i \in 1..Len(CatalogModels) :
        /\ CatalogModels[i] \in QUOTA_RELEVANT_MODELS
        /\ ~isImageGenerationModel(CatalogModels[i])}

\* C20: after a quota sync the stored aggregate quota is the least of the
\* fractions stored for the relevant non-image models of the catalog, whatever
\* the image models report, and it is 0 when the catalog held no quotaInfo at
\* all.
C20_AggregateQuota ==
    sync.phase = "synced" =>
        LET signal == \E i \in 1..Len(CatalogModels) : sync.models[i].kind = "quotaInfo"
            stored == {sync.rows[i][1] : i \in {j \in overallModels : sync.rows[j] # << >>}}
        IN  /\ stored # {} => sync.quota_remaining = MinOf(stored)
            /\ ~signal => sync.quota_remaining = 0

C24_ExitCodes ==
    /\ helper.exit = "nonzero" /\ helper.proc = "closed" =>
          /\ helper.settled = "ERR_NETWORK"
          /\ helper.message = exitMessage(helper.stderrData)
    /\ helper.exit = "spawn" => helper.settled = "ERR_SPAWN"
    /\ helper.exit = "abort" /\ helper.settled # "resolved" =>
          helper.settled = "ERR_CANCELED"
    /\ helper.exit = "timeout" => helper.settled = "ECONNABORTED"

\* C29: tool_call deltas of one streamed response carry indices that grow in
\* emission order: a later tool call has a larger index than an earlier one.
C29_ToolCallIndexMonotonic ==
    \A i, j \in DOMAIN conv.chunks :
        /\ i < j
        /\ conv.chunks[i].delta = "tool_calls"
        /\ conv.chunks[j].delta = "tool_calls"
        => conv.chunks[i].index < conv.chunks[j].index

\* the ids of the functionCall parts of the streamed response, in order
receivedCallIds ==
    LET isCall(p) == p.k = "functionCall"
        calls == SelectSeq(conv.received, isCall)
    IN  [i \in DOMAIN calls |-> calls[i].id]

\* the Claude stream held a thought part with signature s, the last signed
\* one before the first functionCall part, and one or more functionCall parts
\* after it; the next request for the same model carries their ids
signatureRoundTrip(s) ==
    /\ isClaudeModel(conv.model)
    /\ conv.upstream.built
    /\ conv.upstream.req.model = conv.model
    /\ conv.upstream.req.tool_calls = receivedCallIds
    /\ s # ""
    /\ \E i \in DOMAIN conv.received :
          /\ conv.received[i].k = "thought"
          /\ conv.received[i].sig = s
          /\ \E j \in DOMAIN conv.received : conv.received[j].k = "functionCall"
          /\ \A j \in DOMAIN conv.received :
                conv.received[j].k = "functionCall" => j > i
          /\ \A j \in DOMAIN conv.received :
                (j > i /\ conv.received[j].k = "thought" /\ conv.received[j].sig # "")
                    => \E k \in DOMAIN conv.received :
                           k < j /\ conv.received[k].k = "functionCall"

\* the assistant turn of the request built holds a thought part with
\* signature s before all its functionCall parts
thoughtPrecedesCalls(s) ==
    LET parts == conv.upstream.assistant
    IN  /\ \E q \in DOMAIN parts : parts[q].k = "functionCall"
        /\ \E p \in DOMAIN parts :
              /\ parts[p].k = "thought"
              /\ parts[p].sig = s
              /\ \A q \in DOMAIN parts : parts[q].k = "functionCall" => q > p

mixedToolContent ==
    LET content == conv.upstream.req.content
    IN  /\ conv.upstream.built
        /\ \E i \in DOMAIN content : content[i].type = "text" /\ content[i].text # ""
        /\ \E i \in DOMAIN content : content[i].type = "image_url"
        /\ \A i \in DOMAIN content :
              content[i].type = "image_url" => parseDataUrl(content[i].url) # ""

\* the non-empty texts of the tool message, in order
joinedText ==
    LET content == conv.upstream.req.content
        isText(item) == item.type = "text" /\ item.text # ""
        texts == SelectSeq(content, isText)
    IN  [i \in DOMAIN texts |-> texts[i].text]

\* the base64 data of the image_url items of the tool message, in order
imageData ==
    LET content == conv.upstream.req.content
        isImage(item) == item.type = "image_url"
        images == SelectSeq(content, isImage)
    IN  [i \in DOMAIN images |-> parseDataUrl(images[i].url)]

\* the user turn holds one inlineData part per data-URL, in order, and no
\* functionResponse output holds base64 data
imagesSplitOff ==
    LET parts == conv.upstream.tool
        isInline(p) == p.k = "inlineData"
        inline == SelectSeq(parts, isInline)
    IN  /\ [i \in DOMAIN inline |-> inline[i].data] = imageData
        /\ \A i \in DOMAIN parts :
              parts[i].k = "functionResponse" =>
                  \A t \in DOMAIN parts[i].text :
                      \A d \in DOMAIN imageData : parts[i].text[t] # imageData[d]

C27_ThinkingDisabledOnMiss ==
    (/\ conv.upstream.built
     /\ isClaudeModel(conv.upstream.req.model)
     /\ conv.upstream.req.enableThinking
     /\ \A i \in DOMAIN conv.upstream.req.tool_calls :
           /\ looksLikeClaudeToolId(conv.upstream.req.tool_calls[i])
           /\ getCachedClaudeToolThinking(conv, conv.upstream.req.tool_calls[i]) = "")
    => /\ conv.upstream.includeThoughts = "false"
       /\ conv.upstream.downgradeLogged

\* the number of '<think>' chunks less the number of '</think>' chunks among
\* the first n chunks
thinkDepth(n) ==
    Cardinality({i \in 1..n : conv.chunks[i].delta = "<think>"})
        - Cardinality({i \in 1..n : conv.chunks[i].delta = "</think>"})

\* C28: with tags, a '<think>' is emitted only outside a think block and a
\* '</think>' only inside one, so each '<think>' is closed by one '</think>';
\* content, image, tool_call and finish chunks are emitted only outside a
\* think block, and continued thought text only inside one; without tags no
\* tag is emitted.
C28_ThinkClosedBeforeContent ==
    \A i \in DOMAIN conv.chunks :
        LET delta == conv.chunks[i].delta
        IN  /\ delta \in {"<think>", "</think>", "thought"} =>
                  OPENAI_THINKING_INCLUDE_TAGS(conv.output)
            /\ delta = "<think>" => thinkDepth(i - 1) = 0
            /\ delta = "</think>" => thinkDepth(i - 1) = 1
            /\ delta = "thought" => thinkDepth(i - 1) = 1
            /\ delta \in {"content", "image", "tool_calls", "finish"} =>
                  thinkDepth(i - 1) = 0

\* a think block was opened, closed before a tool call, opened again and
\* closed before the finish chunk
C28_Witness ==
    /\ conv.finished
    /\ \E i, j, k \in DOMAIN conv.chunks :
          /\ i < j /\ j < k
          /\ conv.chunks[i].delta = "</think>"
          /\ conv.chunks[i + 1].delta = "tool_calls"
          /\ conv.chunks[j].delta = "<think>"
          /\ conv.chunks[k].delta = "</think>"
          /\ conv.chunks[k + 1].delta = "finish"

\* C30: when a getNextAccount call for key k ends, by a return or by a throw,
\* the sticky entry of k is absent or names one of the threshold candidates of
\* that call (thresholdCandidates(k) for a call that ran without suspension,
\* the candidates it read before it awaited a token otherwise).
C30_StickyAmongCandidates ==
    [][\A r \in Requests, k \in Keys :
          /\ (getNextAccountStarts(r, k) /\ pc'[r] # "awaitToken")
                => \/ preferred'[k] = 0
                   \/ preferred'[k] \in thresholdCandidates(k)
          /\ ((EnsureTokenRefreshed(r) \/ EnsureTokenFailed(r))
                 /\ rkey[r] = k /\ pc'[r] # "awaitToken")
                => \/ preferred'[k] = 0
                   \/ InSeq(scan[r].ordered, preferred'[k])]_vars

\* the candidates above the threshold left after the exclude set ex and the
\* concurrency check
afterExcludeAndConcurrency(ex) == {a \in poolConsidered(ex) : ~poolLockFull(a)}

\* getNextAccount threw the error of its candidate loop on this step
loopThrew(ex) ==
    /\ GetNextAccountCall(ex)
    /\ outcome'.kind = "thrown"
    /\ poolThresholdCandidates # {}

\* C31 as stated: getNextAccount throws the 429 'No capacity available' error
\* exactly when at least one candidate remains after the exclude and the
\* concurrency filtering and every one of them is in cooldown, and throws
\* 'No available accounts with valid tokens' in every other case without a
\* survivor.
C31_CooldownErrorAfterFiltering ==
    [][\A ex \in SUBSET Pool :
          loopThrew(ex) =>
              LET allCooled ==
                      /\ afterExcludeAndConcurrency(ex) # {}
                      /\ \A a \in afterExcludeAndConcurrency(ex) :
                            inCooldown(pool.capacityCooldowns, a, DefaultKey)
              IN  /\ outcome'.error.kind = "capacity" <=> allCooled
                  /\ outcome'.error.kind = "noValidAccounts" <=> ~allCooled]_vars

\* C31, amended: the 429 error is thrown exactly when at least one candidate
\* remains after the exclude filtering, none of them is at its concurrency
\* limit and every one of them is in cooldown; it carries upstreamStatus 429
\* and the time until the earliest of their cooldowns expires.  In every
\* other case without a survivor 'No available accounts with valid tokens'
\* is thrown.
C31_CooldownError ==
    [][\A ex \in SUBSET Pool :
          loopThrew(ex) =>
              LET allCooled ==
                      /\ poolConsidered(ex) # {}
                      /\ \A a \in poolConsidered(ex) :
                            /\ ~poolLockFull(a)
                            /\ inCooldown(pool.capacityCooldowns, a, DefaultKey)
              IN  /\ outcome'.error.kind = "capacity" <=> allCooled
                  /\ outcome'.error.kind = "noValidAccounts" <=> ~allCooled
                  /\ allCooled =>
                        /\ outcome'.error.status = 429
                        /\ Len(outcome'.retryAfterMs) = 1
                        /\ \A a \in poolConsidered(ex) :
                              now + outcome'.retryAfterMs[1]
                                  <= pool.capacityCooldowns[a][DefaultKey]
                        /\ \E a \in poolConsidered(ex) :
                              now + outcome'.retryAfterMs[1]
                                  = pool.capacityCooldowns[a][DefaultKey]]_vars

\* the generic error was thrown although every candidate that passed the
\* exclude and concurrency checks is in cooldown: another candidate is held
\* at its concurrency limit by another request
C31_Witness ==
    /\ run.pc = "done"
    /\ outcome.error.kind = "noValidAccounts"
    /\ afterExcludeAndConcurrency(run.excludedAccountIds) # {}
    /\ \A a \in afterExcludeAndConcurrency(run.excludedAccountIds) :
          inCooldown(pool.capacityCooldowns, a, DefaultKey)
    /\ \E a \in poolConsidered(run.excludedAccountIds) : poolLockFull(a)

\* C32: account status changes only along the documented machine: a request
\* moves an active account to error only through its auth-error handling (the
\* refresh token is invalid, the forced refresh fails or the authentication
\* error persists after it; markAccountError has no caller), and an account
\* in status disabled is never moved to another status by request handling,
\* token refresh or auth-error handling.
C32_StatusMachine ==
    [][\A a \in Pool :
          /\ (pool.status[a] = "active" /\ pool'.status[a] = "error")
                => run'.authHandled /\ run'.account = a
          /\ pool.status[a] = "disabled" => pool'.status[a] = "disabled"]_vars

\* the requests of onboardUser go to the tiers in the order of tiers
tierOrder(order) ==
    \A i, j \in 1..Len(order) :
        (i < j /\ order[i] = "free-tier") => order[j] = "free-tier"

\* C33: onboarding polls each tier at most 8 times with a 2 s sleep between
\* two polls of a tier, tolerates two done=true responses without a project
\* id and gives the tier up at the third, tries standard-tier before
\* free-tier, and always terminates, after at most 16 polls.
C33_OnboardTerminates ==
    /\ [](/\ onb.tierPolls <= maxAttempts
          /\ onb.polls <= Len(tiers) * maxAttempts
          /\ onb.polls <= 16
          /\ onb.noProjectIdRetries <= 3
          /\ (onb.pc \in {"fetching", "sleeping"} => onb.noProjectIdRetries <= 2)
          /\ tierOrder(onb.order)
          /\ (onb.order # << >> => onb.order[1] = "standard-tier")
          /\ (onb.pc = "fetching" /\ onb.tierPolls > 1
                 => onb.slept >= (onb.tierPolls - 1) * 2000)
          /\ onb.slept <= onb.polls * pollDelayMs)
    /\ (onb.pc = "fetching" ~> onb.pc \in {"returned", "thrown"})

\* onboardUser threw after 8 polls of each tier
C33_Witness ==
    /\ onb.pc = "thrown"
    /\ onb.polls = 16
    /\ Len(SelectSeq(onb.order, LAMBDA t : t = "standard-tier")) = 8

\* the entries of account a whose timer chain is live: a timer is pending or
\* a tick is awaiting its request and will set the next timer
liveChains(a) ==
    {i \in 1..Len(hb.entries[a]) : hb.entries[a][i].chain \in {"timer", "ticking"}}

\* C34: for each account at most one heartbeat timer chain is live at any
\* time, and none is live for an account whose heartbeat has been stopped.
C34_OneTimerChain ==
    \A a \in HbAccounts :
        /\ Cardinality(liveChains(a)) <= 1
        /\ hb.heartbeatTimers[a] = 0 => liveChains(a) = {}

\* C35: refreshVersion issues at most one actual version fetch within any
\* 30-second window: a call made less than 30 s after the previous fetch
\* started reuses that fetch instead of fetching again.
C35_OneFetchPerWindow ==
    \A i, j \in 1..Len(ver.fetches) :
        i < j => ver.fetches[j].start - ver.fetches[i].start >= 30 * MsPerSecond

\* the inputs of the thinking decision as the function reads them from the
\* request it was called with
thinkingTypeGiven == normalizeThinkingType(thinkingField(think.req, "type"))

effortGiven ==
    normalizeThinkingEffort(nullish(thinkingField(think.req, "effort"),
                                    think.req.thinking_effort)) # ""

budgetGiven ==
    isPositiveFinite(nullish(think.req.thinking_budget,
                     nullish(think.req.budget_tokens,
                     nullish(thinkingField(think.req, "budget_tokens"),
                             thinkingField(think.req, "budgetTokens")))))

\* C36 as stated: thinking is enabled exactly when the model is in the
\* thinking set, or thinking.type is enabled or adaptive, or an explicit
\* budget greater than 0 is given, or an effort level is given.
C36_ThinkingEnabledIff ==
    think.called =>
        (think.enableThinking <=>
            \/ isThinkingModel(think.req.model)
            \/ thinkingTypeGiven \in {"enabled", "adaptive"}
            \/ budgetGiven
            \/ effortGiven)

\* C36, amended: thinking is enabled exactly when thinking.type is enabled or
\* adaptive, or thinking.type is not disabled and the model is a thinking
\* model, an explicit budget greater than 0 is given or a known effort level
\* is given; thinking.type disabled switches it off in every case.
C36_ThinkingEnabledUnlessDisabled ==
    think.called =>
        /\ thinkingTypeGiven = "disabled" => ~think.enableThinking
        /\ thinkingTypeGiven \in {"enabled", "adaptive"} => think.enableThinking
        /\ thinkingTypeGiven = "" =>
              (think.enableThinking <=>
                  \/ isThinkingModel(think.req.model)
                  \/ budgetGiven
                  \/ effortGiven)

\* a thinking model with a budget and an effort level, switched off by
\* thinking.type disabled
C36_Witness ==
    /\ think.called
    /\ thinkingTypeGiven = "disabled"
    /\ isThinkingModel(think.req.model)
    /\ budgetGiven
    /\ effortGiven
    /\ ~think.enableThinking

\* C37: within one request unlockAccount is called on an account at most once
\* per lock getNextAccount acquired on it for that request: every step that
\* lowers the lock count of an account ends a call of a request that holds a
\* lock on it, also when the account is reused after a
\* server-capacity-exhausted error.
C37_UnlockOncePerLock ==
    [][\A a \in Accounts :
          accountLocks'[a] < accountLocks[a] =>
              \E r \in Requests :
                  /\ pc[r] = "calling"
                  /\ acct[r] = a
                  /\ currentAccount[r] = 0
                  /\ pc'[r] # "calling"]_vars

\* C38: in streamFetch no body chunk is enqueued into the response stream
\* after the stream was closed or cancelled (by the caller's abort, the
\* consumer's cancel or the exit of the helper): controller.enqueue is never
\* called on such a stream, for every order of the stdout data, abort and
\* close events.
C38_NoEnqueueAfterClose == body.late = 0

\* C39: for every upstream model catalog fetchQuotaInfo and
\* fetchDetailedQuotaInfo store the same aggregate quota and the same reset
\* time: what either of them stored is what the other one stores for the
\* catalog.
C39_SameAggregate ==
    sync.phase \in {"synced", "detailed"} =>
        LET a == fetchQuotaInfo(sync, 0)
            b == fetchDetailedQuotaInfo(sync)
            stored == <<sync.quota_remaining, sync.quota_reset_time>>
        IN  /\ stored = <<a.quota_remaining, a.quota_reset_time>>
            /\ stored = <<b.quota_remaining, b.quota_reset_time>>

\* C40: at most one periodic run loop of the Unleash scheduler, and of the
\* telemetry scheduler, is active however often and whenever start is called
\* (a loop is a pending first-run timeout or a live interval), and after stop
\* no run begins until the next start.
C40_OneRunLoop ==
    \A k \in Schedulers :
        /\ sched[k].initial + Cardinality(sched[k].intervals) <= 1
        /\ ~sched[k].lateRun

====
